---- MODULE Spec2Model ----
(***************************************************************************)
(* A model of readcon-core: the line-value decoder, the header and frame  *)
(* decoders (parser.rs), the frame iterator with its two advance modes     *)
(* (iterators.rs), the frame writer (writer.rs) and the C boundary         *)
(* (ffi.rs).                                                               *)
(*                                                                         *)
(* Text is modelled at character level: a str is the sequence of the       *)
(* scalar values of its characters, a file is a sequence of lines (what    *)
(* str::lines yields), a token is a non-empty run of characters that are   *)
(* not whitespace.  An f64 is NaN, an infinity, or the finite double named *)
(* by its shortest decimal; a usize / u64 is 64 bits wide, held as three   *)
(* limbs to base 10^7, and its arithmetic reports overflow.                *)
(***************************************************************************)
EXTENDS Integers, Sequences, FiniteSets, TLC

VARIABLES
    input,      \* the file and the build that reads it: [tpl, dmg, checks] (the fixture, not program state)
    lines,      \* the line sequence the iterator reads (str::lines of the file)
    pos,        \* the iterator's cursor: the number of lines consumed so far
    ncalls,     \* how many next()/forward() calls were made on the iterator
    last,       \* the last call: [op, from, res]
    frames,     \* the frames returned Ok by next(), in call order
    out,        \* the writer's output buffer (characters, "\n" terminated lines)
    wstate,     \* "idle" | "ok" | "panic": the outcome of ConFrameWriter::extend
    reread,     \* the results of decoding `out` again with a fresh iterator
    probe,      \* the last application of parse_line_of_n: [line, toks, n, ty, res]
    iter,       \* the boundary's iterator handle: its CConFrameIterator box, parser state and text buffer
    cframes,    \* the CFrames handed across the boundary, in allocation order: [val, box, atoms]
    ret,        \* the last boundary call: [op, status, val]
    disk        \* the output file of the boundary's write functions: [exists, text]

boundary == <<iter, cframes, ret, disk>>

vars == <<input, lines, pos, ncalls, last, frames, out, wstate, reread, probe,
          iter, cframes, ret, disk>>

----------------------------------------------------------------------------
(* Bounds of the model *)

\* the most frames in an input file
MaxFrames == 2
\* the most calls made on one iterator
MaxCalls == 4
\* the largest arity asked of parse_line_of_n in the line-decoder specification
MaxArity == 3
\* the most CFrames a client of the boundary has allocated for it
MaxCFrames == 1
\* the most frame pointers in an array given to write_con_file_from_c
MaxBatch == 2

----------------------------------------------------------------------------
(* Program constants *)

FLOAT_PRECISION == 6
FIXED_ATOM_FLAG == 1
FREE_ATOM_FLAG == 0
\* lines of a frame header, parse_frame_header
HeaderLines == 9
\* values on a coordinate line, parse_single_frame
CoordArity == 5

----------------------------------------------------------------------------
(* Characters, Option and Result *)

\* the printable characters of ASCII, U+0020 to U+007E, in code order (the
\* place of U+0060, which a literal cannot hold, is left empty)
Ascii ==
    <<" ", "!", "\"", "#", "$", "%", "&", "'", "(", ")", "*", "+", ",", "-", ".", "/",
      "0", "1", "2", "3", "4", "5", "6", "7", "8", "9", ":", ";", "<", "=", ">", "?",
      "@", "A", "B", "C", "D", "E", "F", "G", "H", "I", "J", "K", "L", "M", "N", "O",
      "P", "Q", "R", "S", "T", "U", "V", "W", "X", "Y", "Z", "[", "\\", "]", "^", "_",
      "",  "a", "b", "c", "d", "e", "f", "g", "h", "i", "j", "k", "l", "m", "n", "o",
      "p", "q", "r", "s", "t", "u", "v", "w", "x", "y", "z", "{", "|", "}", "~">>

\* the scalar value of a character written as a literal
CodeOf(c) ==
    IF c = "\t" THEN 9
    ELSE IF c = "\n" THEN 10
    ELSE IF c = "\f" THEN 12
    ELSE IF c = "\r" THEN 13
    ELSE 31 + (CHOOSE i \in 1..Len(Ascii) : Ascii[i] = c)

\* a str written as the sequence of its characters
Str(s) == SubSeq([i \in 1..Len(s) |-> CodeOf(s[i])], 1, Len(s))

\* the characters the parsers and formatters name
Digit0 == CodeOf("0")
Digit9 == CodeOf("9")
PlusSign == CodeOf("+")
MinusSign == CodeOf("-")
Point == CodeOf(".")
ExponentMarks == {CodeOf("e"), CodeOf("E")}
UpperA == CodeOf("A")
UpperZ == CodeOf("Z")
Space == CodeOf(" ")
LF == CodeOf("\n")
CR == CodeOf("\r")

IsDigit(c) == c >= Digit0 /\ c <= Digit9

DigitVal(c) == c - Digit0

DigitChar(d) == Digit0 + d

\* the code points with the White_Space property
WhiteSpace ==
    (9..13) \cup {32, 133, 160, 5760} \cup (8192..8202)
    \cup {8232, 8233, 8239, 8287, 12288}

\* char::is_whitespace
IsWhitespace(c) == c \in WhiteSpace

None == [tag |-> "None"]
Ok(v) == [tag |-> "Ok", val |-> v]
Err(e) == [tag |-> "Err", err |-> e]

RECURSIVE Pow10(_)
Pow10(n) == IF n = 0 THEN 1 ELSE 10 * Pow10(n - 1)

Min(a, b) == IF a <= b THEN a ELSE b
Max(a, b) == IF a < b THEN b ELSE a

Zeros(n) == [i \in 1..n |-> 0]

----------------------------------------------------------------------------
(* Decimal digit strings: sequences over 0..9, most significant digit      *)
(* first, the empty string for zero.                                       *)

RECURSIVE DecVal(_)
DecVal(ds) == IF ds = <<>> THEN 0 ELSE 10 * DecVal(SubSeq(ds, 1, Len(ds) - 1)) + ds[Len(ds)]

AllZero(ds, lo, hi) == \A i \in lo..hi : ds[i] = 0

StripLead(ds) ==
    IF AllZero(ds, 1, Len(ds)) THEN <<>>
    ELSE SubSeq(ds, CHOOSE i \in 1..Len(ds) : ds[i] # 0 /\ AllZero(ds, 1, i - 1), Len(ds))

StripTrail(ds) ==
    IF AllZero(ds, 1, Len(ds)) THEN <<>>
    ELSE SubSeq(ds, 1, CHOOSE i \in 1..Len(ds) : ds[i] # 0 /\ AllZero(ds, i + 1, Len(ds)))

\* a < b, for strings without leading zeros
DigitsLt(a, b) ==
    \/ Len(a) < Len(b)
    \/ /\ Len(a) = Len(b)
       /\ \E i \in 1..Len(a) : a[i] < b[i] /\ \A j \in 1..(i - 1) : a[j] = b[j]

\* 2 * ds: a digit takes a carry exactly when the digit to its right is 5 or more
Dbl(ds) ==
    LET body == [i \in 1..Len(ds) |->
                    (2 * ds[i] + (IF i < Len(ds) /\ ds[i + 1] >= 5 THEN 1 ELSE 0)) % 10]
    IN  IF ds # <<>> /\ ds[1] >= 5 THEN <<1>> \o body ELSE SubSeq(body, 1, Len(ds))

\* 5 * ds: the carry into a digit is half the digit to its right
Quint(ds) ==
    LET body == [i \in 1..Len(ds) |->
                    (5 * ds[i] + (IF i < Len(ds) THEN ds[i + 1] \div 2 ELSE 0)) % 10]
    IN  IF ds # <<>> /\ ds[1] >= 2 THEN <<ds[1] \div 2>> \o body ELSE SubSeq(body, 1, Len(ds))

\* ds + 1
Inc(ds) ==
    IF \A i \in 1..Len(ds) : ds[i] = 9 THEN <<1>> \o Zeros(Len(ds))
    ELSE LET k == CHOOSE i \in 1..Len(ds) : ds[i] # 9 /\ \A j \in (i + 1)..Len(ds) : ds[j] = 9
         IN  SubSeq(ds, 1, k - 1) \o <<ds[k] + 1>> \o Zeros(Len(ds) - k)

\* the digits of a natural number
RECURSIVE Digits(_)
Digits(n) == IF n = 0 THEN <<>> ELSE Append(Digits(n \div 10), n % 10)

RECURSIVE DblTimes(_, _)
DblTimes(ds, n) ==
    IF n = 0 \/ ds = <<>> THEN ds
    ELSE IF n = 1 THEN Dbl(ds)
    ELSE DblTimes(DblTimes(ds, n \div 2), n - n \div 2)

RECURSIVE QuintTimes(_, _)
QuintTimes(ds, n) ==
    IF n = 0 \/ ds = <<>> THEN ds
    ELSE IF n = 1 THEN Quint(ds)
    ELSE QuintTimes(QuintTimes(ds, n \div 2), n - n \div 2)

\* a decimal: the value 0.M * 10^P, M without leading or trailing zeros
Decimal(M, P) == [M |-> M, P |-> P]

\* the decimal of the digits ds with the point after the first `point` of them
DecimalOf(ds, point) ==
    IF AllZero(ds, 1, Len(ds)) THEN Decimal(<<>>, 0)
    ELSE Decimal(StripTrail(StripLead(ds)), point - (Len(ds) - Len(StripLead(ds))))

\* the digits before the point
IntDigits(d) ==
    IF d.P <= 0 THEN <<>>
    ELSE IF d.P >= Len(d.M) THEN d.M \o Zeros(d.P - Len(d.M))
    ELSE SubSeq(d.M, 1, d.P)

\* the digits after the point
FracPart(d) ==
    IF d.P <= 0 THEN Zeros(0 - d.P) \o d.M
    ELSE IF d.P >= Len(d.M) THEN <<>>
    ELSE SubSeq(d.M, d.P + 1, Len(d.M))

\* how the digits after the first `keep` digits of ds compare with one half
\* of a unit of the last kept digit: "lt", "eq" (a tie) or "gt"
TailVsHalf(ds, keep) ==
    IF keep >= Len(ds) \/ ds[keep + 1] < 5 THEN "lt"
    ELSE IF ds[keep + 1] > 5 \/ ~AllZero(ds, keep + 2, Len(ds)) THEN "gt"
    ELSE "eq"

\* ds cut to its first `keep` digits and rounded to nearest, ties to even;
\* one digit longer when the carry runs out of the front (keep >= 0; for
\* keep = 0 the result is <<>> or <<1>>)
RoundDigits(ds, keep) ==
    LET kept == SubSeq(ds, 1, Min(keep, Len(ds)))
        cmp == TailVsHalf(ds, keep)
        odd == keep > 0 /\ keep <= Len(ds) /\ ds[keep] % 2 = 1
    IN  IF cmp = "gt" \/ (cmp = "eq" /\ odd) THEN Inc(kept) ELSE kept

----------------------------------------------------------------------------
(* f64: IEEE 754 binary64.  A finite double is m * 2^e with m below 2^53.   *)

TwoPow52 == <<4, 5, 0, 3, 5, 9, 9, 6, 2, 7, 3, 7, 0, 4, 9, 6>>
TwoPow53 == <<9, 0, 0, 7, 1, 9, 9, 2, 5, 4, 7, 4, 0, 9, 9, 2>>
\* the exponent of the subnormal doubles, and the largest exponent
MinExp == 0 - 1074
MaxExp == 1023 - 52

\* the scaled value X / 10^s * 2^e
Scaled(X, s, e) == [X |-> X, s |-> s, e |-> e]

Whole(st) == IF Len(st.X) <= st.s THEN <<>> ELSE SubSeq(st.X, 1, Len(st.X) - st.s)

Rest(st) == IF Len(st.X) <= st.s THEN Zeros(st.s - Len(st.X)) \o st.X
            ELSE SubSeq(st.X, Len(st.X) - st.s + 1, Len(st.X))

TooSmall(st) == DigitsLt(Whole(st), TwoPow52) /\ st.e > MinExp

TooLarge(st) == ~DigitsLt(Whole(st), TwoPow53)

\* at most n doublings, while the whole part is below 2^52
RECURSIVE ScaleUp(_, _)
ScaleUp(st, n) ==
    IF n = 0 \/ ~TooSmall(st) THEN st
    ELSE IF n = 1 THEN Scaled(Dbl(st.X), st.s, st.e - 1)
    ELSE ScaleUp(ScaleUp(st, n \div 2), n - n \div 2)

\* at most n halvings, while the whole part is 2^53 or more
RECURSIVE ScaleDown(_, _)
ScaleDown(st, n) ==
    IF n = 0 \/ ~TooLarge(st) THEN st
    ELSE IF n = 1 THEN Scaled(Quint(st.X), st.s + 1, st.e + 1)
    ELSE ScaleDown(ScaleDown(st, n \div 2), n - n \div 2)

Double(kind, m, e) == [kind |-> kind, m |-> m, e |-> e]

\* the significand rounded to nearest, ties to even, and renormalised
Rounded(st, cmp) ==
    LET w == Whole(st)
        m == IF cmp = "gt" \/ (cmp = "eq" /\ w # <<>> /\ w[Len(w)] % 2 = 1) THEN Inc(w) ELSE w
    IN  IF m = <<>> THEN Double("zero", <<>>, 0)
        ELSE IF m = TwoPow53
             THEN IF st.e + 1 > MaxExp THEN Double("inf", <<>>, 0)
                  ELSE Double("fin", TwoPow52, st.e + 1)
        ELSE IF st.e > MaxExp THEN Double("inf", <<>>, 0)
        ELSE Double("fin", m, st.e)

\* the double nearest to a decimal (ties to even): what parsing a literal gives
ToDouble(d) ==
    IF d.M = <<>> \/ d.P < 0 - 330 THEN Double("zero", <<>>, 0)
    ELSE IF d.P > 310 THEN Double("inf", <<>>, 0)
    ELSE LET st == ScaleDown(ScaleUp(Scaled(d.M \o Zeros(Max(0, d.P - Len(d.M))),
                                             Max(0, Len(d.M) - d.P), 0),
                                      60 + 4 * Max(0, Len(d.M) - d.P)),
                             4 + 4 * Max(0, d.P))
         IN  Rounded(st, TailVsHalf(Rest(st), 0))

\* the digits ds with the point `shift` places right of their end
Placed(ds, shift) == DecimalOf(ds, Len(ds) + shift)

\* the exact decimal value of a finite double
Exact(b) ==
    IF b.kind # "fin" THEN Decimal(<<>>, 0)
    ELSE IF b.e >= 0 THEN Placed(DblTimes(b.m, b.e), 0)
    ELSE Placed(QuintTimes(b.m, 0 - b.e), b.e)

\* the rounded digits r of the first n digits of d.M, as a decimal
Carried(d, n, r) == DecimalOf(r, d.P + (Len(r) - Min(n, Len(d.M))))

\* d rounded to n significant digits
RoundSig(d, n) == Carried(d, n, RoundDigits(d.M, n))

\* the least number of significant digits, from n on, at which the exact
\* value x of the double b still names b; 17 digits always do
RECURSIVE Shortest(_, _, _)
Shortest(b, x, n) ==
    IF n >= 17 \/ ToDouble(RoundSig(x, n)) = b THEN RoundSig(x, n)
    ELSE Shortest(b, x, n + 1)

\* a decimal of at most 15 significant digits in the normal range is the
\* shortest name of the double nearest to it
Plain(d) == Len(d.M) <= 15 /\ d.P >= 0 - 300 /\ d.P <= 300

\* an f64: NaN, an infinity, or the finite double whose shortest decimal
\* name is 0.M * 10^P (M empty for zero)
F64(kind, neg, d) == [kind |-> kind, neg |-> neg, M |-> d.M, P |-> d.P]

DecimalPart(v) == Decimal(v.M, v.P)

\* the f64 of a double
F64OfDouble(neg, b) ==
    IF b.kind = "inf" THEN F64("inf", neg, Decimal(<<>>, 0))
    ELSE IF b.kind = "zero" THEN F64("fin", neg, Decimal(<<>>, 0))
    ELSE F64("fin", neg, Shortest(b, Exact(b), 1))

\* the f64 nearest to a decimal
F64OfDecimal(neg, d) ==
    IF Plain(d) THEN F64("fin", neg, d) ELSE F64OfDouble(neg, ToDouble(d))

\* `v != 0.0`
F64NonZero(v) == ~(v.kind = "fin" /\ v.M = <<>>)

----------------------------------------------------------------------------
(* usize and u64: 64 bits wide.  A value is three limbs to base 10^7, most *)
(* significant first.                                                      *)

LimbBase == Pow10(7)

\* 2^64 - 1
USIZE_MAX == <<184467, 4407370, 9551615>>

USIZE_MAX_DIGITS == <<1, 8, 4, 4, 6, 7, 4, 4, 0, 7, 3, 7, 0, 9, 5, 5, 1, 6, 1, 5>>

\* the usize of a natural number of the model
U(n) == <<0, n \div LimbBase, n % LimbBase>>

\* the natural number of a usize below 2 * 10^9
N(u) == u[2] * LimbBase + u[3]

ULt(a, b) ==
    \/ a[1] < b[1]
    \/ a[1] = b[1] /\ (a[2] < b[2] \/ (a[2] = b[2] /\ a[3] < b[3]))

\* the limbs of a + b before reduction: the first limb may exceed 2^64's
Carry(hi, mid, lo) == <<hi + mid \div LimbBase, mid % LimbBase, lo % LimbBase>>

UWide(a, b) == Carry(a[1] + b[1], a[2] + b[2] + (a[3] + b[3]) \div LimbBase, a[3] + b[3])

\* w - 2^64, for w in 2^64 .. 2^65 - 2
Borrow(hi, mid, lo) == <<hi - (IF mid < 0 THEN 1 ELSE 0), (mid + LimbBase) % LimbBase, (lo + LimbBase) % LimbBase>>

UWrap(w) == Borrow(w[1] - 184467, w[2] - 4407370 - (IF w[3] < 9551616 THEN 1 ELSE 0), w[3] - 9551616)

\* a + b on usize: the wrapped sum and whether the addition overflowed
Summed(w) == IF ULt(USIZE_MAX, w) THEN [ovf |-> TRUE, val |-> UWrap(w)]
             ELSE [ovf |-> FALSE, val |-> w]

UAdd(a, b) == Summed(UWide(a, b))

\* the usize of a digit string that is at most USIZE_MAX
Limbs(ds) == <<DecVal(SubSeq(ds, 1, 7)), DecVal(SubSeq(ds, 8, 14)), DecVal(SubSeq(ds, 15, 21))>>

UOfDigits(ds) == Limbs(Zeros(21 - Len(StripLead(ds))) \o StripLead(ds))

\* the digit string of a usize
PadDigits(ds, w) == Zeros(w - Len(ds)) \o ds

UDigits(u) == StripLead(PadDigits(Digits(u[1]), 7) \o PadDigits(Digits(u[2]), 7) \o PadDigits(Digits(u[3]), 7))

\* whether a digit string exceeds USIZE_MAX
TooBig(ds) == DigitsLt(USIZE_MAX_DIGITS, StripLead(ds))

\* the u64 of a whole part: u64::MAX above the range
Saturated(ip) == IF TooBig(ip) THEN USIZE_MAX ELSE UOfDigits(ip)

\* `v as u64`: NaN gives 0, otherwise truncation toward zero, saturating
\* at 0 and at u64::MAX.  A double below 10^15 named by at most 15 digits has the whole part of its
\* name; from 10^15 on the double and its name may differ in the units, and
\* the cast sees the double
F64AsU64(v) ==
    IF v.kind = "nan" \/ v.neg THEN U(0)
    ELSE IF v.kind = "inf" \/ v.P > 20 THEN USIZE_MAX
    ELSE IF Len(v.M) <= 15 /\ v.P <= 15 THEN Saturated(IntDigits(DecimalPart(v)))
    ELSE Saturated(IntDigits(Exact(ToDouble(DecimalPart(v)))))

----------------------------------------------------------------------------
(* str::parse::<usize>() and str::parse::<f64>() *)

\* the Display text of std's parse errors (what e.to_string() yields)
IntErrorEmpty ==
    Str(<<"c", "a", "n", "n", "o", "t", " ", "p", "a", "r", "s", "e", " ", "i",
          "n", "t", "e", "g", "e", "r", " ", "f", "r", "o", "m", " ", "e", "m",
          "p", "t", "y", " ", "s", "t", "r", "i", "n", "g">>)
IntErrorInvalidDigit ==
    Str(<<"i", "n", "v", "a", "l", "i", "d", " ", "d", "i", "g", "i", "t", " ",
          "f", "o", "u", "n", "d", " ", "i", "n", " ", "s", "t", "r", "i", "n",
          "g">>)
IntErrorPosOverflow ==
    Str(<<"n", "u", "m", "b", "e", "r", " ", "t", "o", "o", " ", "l", "a", "r",
          "g", "e", " ", "t", "o", " ", "f", "i", "t", " ", "i", "n", " ", "t",
          "a", "r", "g", "e", "t", " ", "t", "y", "p", "e">>)
FloatErrorEmpty ==
    Str(<<"c", "a", "n", "n", "o", "t", " ", "p", "a", "r", "s", "e", " ", "f",
          "l", "o", "a", "t", " ", "f", "r", "o", "m", " ", "e", "m", "p", "t",
          "y", " ", "s", "t", "r", "i", "n", "g">>)
FloatErrorInvalid ==
    Str(<<"i", "n", "v", "a", "l", "i", "d", " ", "f", "l", "o", "a", "t", " ",
          "l", "i", "t", "e", "r", "a", "l">>)

AllDigits(cs) == \A i \in 1..Len(cs) : IsDigit(cs[i])

DigitVals(cs) == SubSeq([i \in 1..Len(cs) |-> DigitVal(cs[i])], 1, Len(cs))

\* the place of the first character of cs that is in the set, or Len(cs) + 1
FirstOf(cs, set) ==
    IF \E i \in 1..Len(cs) : cs[i] \in set
    THEN CHOOSE i \in 1..Len(cs) : cs[i] \in set /\ \A j \in 1..(i - 1) : cs[j] \notin set
    ELSE Len(cs) + 1

\* the place of the first character of cs that is no digit, or Len(cs) + 1
FirstNonDigit(cs) ==
    IF AllDigits(cs) THEN Len(cs) + 1
    ELSE CHOOSE i \in 1..Len(cs) : ~IsDigit(cs[i]) /\ AllDigits(SubSeq(cs, 1, i - 1))

\* the digits read before the first character that is no digit: the value
\* passes usize::MAX (PosOverflow) or the character is rejected (InvalidDigit)
UsizeDigits(body, stop) ==
    IF TooBig(DigitVals(SubSeq(body, 1, stop - 1))) THEN Err(IntErrorPosOverflow)
    ELSE IF stop <= Len(body) THEN Err(IntErrorInvalidDigit)
    ELSE Ok(UOfDigits(DigitVals(body)))

\* from_str_radix(src, 10) of an unsigned type: a leading `+` is taken, a
\* sign alone or a `-` is an invalid digit
UsizeBody(body) ==
    IF body = <<>> THEN Err(IntErrorInvalidDigit)
    ELSE UsizeDigits(body, FirstNonDigit(body))

ParseUsize(tok) ==
    IF tok = <<>> THEN Err(IntErrorEmpty)
    ELSE IF tok[1] = PlusSign THEN UsizeBody(Tail(tok))
    ELSE UsizeBody(tok)

\* the digits of an exponent, read as parse_scientific reads them: a digit
\* is taken in while the value is below 0x10000
ExpDigits(ds) ==
    IF Len(ds) <= 5 THEN DecVal(ds)
    ELSE IF DecVal(SubSeq(ds, 1, 5)) >= 65536 THEN DecVal(SubSeq(ds, 1, 5))
    ELSE DecVal(SubSeq(ds, 1, 6))

\* the exponent part of a literal, the text after its `e`
IsExponent(ex) ==
    IF ex # <<>> /\ ex[1] \in {PlusSign, MinusSign}
    THEN Len(ex) > 1 /\ AllDigits(Tail(ex))
    ELSE ex # <<>> /\ AllDigits(ex)

ExponentOf(ex) ==
    IF ex = <<>> THEN 0
    ELSE IF ex[1] = MinusSign THEN 0 - ExpDigits(StripLead(DigitVals(Tail(ex))))
    ELSE IF ex[1] = PlusSign THEN ExpDigits(StripLead(DigitVals(Tail(ex))))
    ELSE ExpDigits(StripLead(DigitVals(ex)))

\* the digits and point of a literal: digits, at most one point, one digit at least
IsMantissa(mant, pt) ==
    /\ \A i \in 1..Len(mant) : i = pt \/ IsDigit(mant[i])
    /\ Len(mant) > (IF pt <= Len(mant) THEN 1 ELSE 0)

MantissaDigits(mant, pt) ==
    DigitVals(SubSeq(mant, 1, pt - 1) \o SubSeq(mant, pt + 1, Len(mant)))

\* parse_number on the text split at its exponent mark
IsNumber(mant, ex, marked) ==
    /\ IsMantissa(mant, FirstOf(mant, {Point}))
    /\ IF marked THEN IsExponent(ex) ELSE TRUE

NumberOf(mant, pt, ex) == DecimalOf(MantissaDigits(mant, pt), (pt - 1) + ExponentOf(ex))

\* ASCII lower case of a text
Lower(cs) ==
    [i \in 1..Len(cs) |-> IF cs[i] \in UpperA..UpperZ THEN cs[i] + 32 ELSE cs[i]]

\* parse_inf_nan
TextInf == Str(<<"i", "n", "f">>)
TextInfinity == Str(<<"i", "n", "f", "i", "n", "i", "t", "y">>)
TextNan == Str(<<"n", "a", "n">>)
TextNaN == Str(<<"N", "a", "N">>)

IsInf(body) == Lower(body) \in {TextInf, TextInfinity}

IsNan(body) == Lower(body) = TextNan

\* dec2flt after the sign: a number, an infinity, NaN, or an invalid literal
FloatBody(neg, body, em) ==
    IF body = <<>> THEN Err(FloatErrorInvalid)
    ELSE IF IsNumber(SubSeq(body, 1, em - 1), SubSeq(body, em + 1, Len(body)), em <= Len(body))
    THEN Ok(F64OfDecimal(neg, NumberOf(SubSeq(body, 1, em - 1),
                                        FirstOf(SubSeq(body, 1, em - 1), {Point}),
                                        SubSeq(body, em + 1, Len(body)))))
    ELSE IF IsInf(body) THEN Ok(F64("inf", neg, Decimal(<<>>, 0)))
    ELSE IF IsNan(body) THEN Ok(F64("nan", neg, Decimal(<<>>, 0)))
    ELSE Err(FloatErrorInvalid)

FloatSigned(neg, body) == FloatBody(neg, body, FirstOf(body, ExponentMarks))

ParseF64(tok) ==
    IF tok = <<>> THEN Err(FloatErrorEmpty)
    ELSE IF tok[1] \in {PlusSign, MinusSign} THEN FloatSigned(tok[1] = MinusSign, Tail(tok))
    ELSE FloatSigned(FALSE, tok)

Parse(ty, tok) == IF ty = "usize" THEN ParseUsize(tok) ELSE ParseF64(tok)

----------------------------------------------------------------------------
(* Display: `{}` of a usize and `{:.prec}` of an f64 *)

DigitText(ds) == SubSeq([i \in 1..Len(ds) |-> DigitChar(ds[i])], 1, Len(ds))

\* format!("{}", n)
DecDigits(u) == IF u = U(0) THEN <<DigitChar(0)>> ELSE DigitText(UDigits(u))

\* the digits of a decimal down to `prec` places after the point
FixedDigits(d, prec) ==
    IntDigits(d) \o SubSeq(FracPart(d) \o Zeros(prec), 1, Max(prec, Len(FracPart(d))))

\* the decimal can be rounded at `prec` places in place of the double it
\* names: no tie of that place lies between the two
RoundsPlain(d, prec) ==
    /\ Plain(d)
    /\ Max(d.P, 0) + prec + 1 <= 15
    /\ TailVsHalf(FixedDigits(d, prec), Len(IntDigits(d)) + prec) # "eq"

\* the text of rounded digits r, `prec` of them after the point
FixedText(r, prec) ==
    (IF Len(r) = prec THEN <<DigitChar(0)>> ELSE DigitText(SubSeq(r, 1, Len(r) - prec)))
    \o (IF prec = 0 THEN <<>>
        ELSE <<Point>> \o DigitText(SubSeq(r, Len(r) - prec + 1, Len(r))))

\* the exact value x of the double, rounded to nearest at `prec` places, ties to even
FmtExact(x, prec) == FixedText(RoundDigits(FixedDigits(x, prec), Len(IntDigits(x)) + prec), prec)

FmtFinite(d, prec) ==
    IF RoundsPlain(d, prec) THEN FmtExact(d, prec)
    ELSE FmtExact(Exact(ToDouble(d)), prec)

\* format!("{:.prec$}", v)
FmtF64(v, prec) ==
    IF v.kind = "nan" THEN TextNaN
    ELSE (IF v.neg THEN <<MinusSign>> ELSE <<>>)
         \o (IF v.kind = "inf" THEN TextInf
             ELSE FmtFinite(DecimalPart(v), prec))

----------------------------------------------------------------------------
(* error.rs: ParseError; a panic of the thread that made the call *)

IncompleteHeader == [kind |-> "IncompleteHeader"]
IncompleteFrame == [kind |-> "IncompleteFrame"]
InvalidVectorLength(e, f) == [kind |-> "InvalidVectorLength", expected |-> e, found |-> f]
InvalidNumberFormat(s) == [kind |-> "InvalidNumberFormat", msg |-> s]

\* the call does not return: the thread panics (inside an extern "C" function
\* the process aborts)
Panic == [tag |-> "Panic"]

\* the number of passes of `for _ in 0..u` that a sequence of `most` items
\* can tell apart: u itself, or more than there are items
Capped(u, most) == IF ULt(U(most), u) THEN most + 1 ELSE N(u)

\* Sums and concatenations are folded by halves: the value is that of the
\* left-to-right loop, the nesting of the evaluation stays logarithmic.

\* two partial sums added: the sum wraps at 2^64, and ovf tells whether an
\* addition overflowed (all terms being unsigned, one does whenever the
\* exact total passes usize::MAX, in whatever order the terms are added)
Joined(a, b, s) == [ovf |-> a.ovf \/ b.ovf \/ s.ovf, val |-> s.val]

Both(a, b) == Joined(a, b, UAdd(a.val, b.val))

\* Iterator::sum::<usize>()
RECURSIVE SumSeq(_)
SumSeq(s) ==
    IF s = <<>> THEN [ovf |-> FALSE, val |-> U(0)]
    ELSE IF Len(s) = 1 THEN [ovf |-> FALSE, val |-> s[1]]
    ELSE Both(SumSeq(SubSeq(s, 1, Len(s) \div 2)), SumSeq(SubSeq(s, Len(s) \div 2 + 1, Len(s))))

RECURSIVE Concat(_)
Concat(ss) ==
    IF ss = <<>> THEN <<>>
    ELSE IF Len(ss) = 1 THEN ss[1]
    ELSE Concat(SubSeq(ss, 1, Len(ss) \div 2)) \o Concat(SubSeq(ss, Len(ss) \div 2 + 1, Len(ss)))

----------------------------------------------------------------------------
(* str::split_whitespace and str::trim *)

\* the tokens of two adjacent pieces of a line: a token that runs across the
\* cut (no whitespace on either side of it) is one token
JoinPieces(line, mid, left, right) ==
    IF left # <<>> /\ right # <<>> /\ ~IsWhitespace(line[mid]) /\ ~IsWhitespace(line[mid + 1])
    THEN SubSeq(left, 1, Len(left) - 1)
         \o <<left[Len(left)] \o right[1]>>
         \o SubSeq(right, 2, Len(right))
    ELSE left \o right

\* the tokens of line[lo..hi], the maximal runs of non-whitespace characters
RECURSIVE SplitFrom(_, _, _)
SplitFrom(line, lo, hi) ==
    IF lo > hi THEN <<>>
    ELSE IF lo = hi THEN IF IsWhitespace(line[lo]) THEN <<>> ELSE <<<<line[lo]>>>>
    ELSE JoinPieces(line, (lo + hi) \div 2,
                    SplitFrom(line, lo, (lo + hi) \div 2),
                    SplitFrom(line, (lo + hi) \div 2 + 1, hi))

split_whitespace(line) == SplitFrom(line, 1, Len(line))

trim(line) ==
    LET keep == {i \in 1..Len(line) : ~IsWhitespace(line[i])}
    IN  IF keep = {} THEN <<>>
        ELSE LET lo == CHOOSE i \in keep : \A j \in keep : i <= j
                 hi == CHOOSE i \in keep : \A j \in keep : j <= i
             IN  SubSeq(line, lo, hi)

----------------------------------------------------------------------------
(* parser.rs: parse_line_of_n *)

\* .map(|s| s.parse::<T>())
ParseTokens(toks, ty) == [i \in 1..Len(toks) |-> Parse(ty, toks[i])]

\* the first element of a Result sequence that is an Err (collect::<Result<_,_>>)
FirstErr(rs) == rs[CHOOSE i \in 1..Len(rs) : rs[i].tag = "Err" /\ \A j \in 1..(i - 1) : rs[j].tag = "Ok"]

\* mutant: the arity check accepts a line with more than n values
CheckArity_AtLeast(parsed, n) ==
    IF \E i \in 1..Len(parsed) : parsed[i].tag = "Err"
    THEN Err(InvalidNumberFormat(FirstErr(parsed).err))
    ELSE IF ~ULt(U(Len(parsed)), n)
         THEN Ok([i \in 1..Len(parsed) |-> parsed[i].val])
         ELSE Err(InvalidVectorLength(n, U(Len(parsed))))

\* mutant: the number of tokens is checked before their parse results
CheckArity_ArityFirst(parsed, n) ==
    IF U(Len(parsed)) # n THEN Err(InvalidVectorLength(n, U(Len(parsed))))
    ELSE IF \E i \in 1..Len(parsed) : parsed[i].tag = "Err"
         THEN Err(InvalidNumberFormat(FirstErr(parsed).err))
         ELSE Ok([i \in 1..Len(parsed) |-> parsed[i].val])

\* collect::<Result<_, _>>()? and the check of values.len() against n
CheckArity(parsed, n) ==
    IF \E i \in 1..Len(parsed) : parsed[i].tag = "Err"
    THEN Err(InvalidNumberFormat(FirstErr(parsed).err))
    ELSE IF U(Len(parsed)) = n
         THEN Ok([i \in 1..Len(parsed) |-> parsed[i].val])
         ELSE Err(InvalidVectorLength(n, U(Len(parsed))))

\* n is a usize
parse_line_of_n(line, n, ty) == CheckArity(ParseTokens(split_whitespace(line), ty), n)

----------------------------------------------------------------------------
(* parser.rs: parse_frame_header.  `ls` is the line sequence, `p` the      *)
(* number of lines already consumed; the result carries the cursor after   *)
(* the call.  A `lines.next()` that finds nothing leaves the cursor at the *)
(* end of the sequence.  The function reads line after line and returns at *)
(* the first line that is missing or malformed: each step below takes what *)
(* the earlier lines gave and reads the next numeric line.                 *)

FrameHeader(pre1, pre2, boxl, angles, post1, post2, n, natms, masses) ==
    [prebox_header |-> <<pre1, pre2>>,
     boxl |-> boxl,
     angles |-> angles,
     postbox_header |-> <<post1, post2>>,
     natm_types |-> n,
     natms_per_type |-> natms,
     masses_per_type |-> masses]

\* mutant: a header line that is missing is reported as IncompleteFrame
HeaderEof_AsFrame(ls) == [res |-> Err(IncompleteFrame), pos |-> Len(ls)]

HeaderEof(ls) == [res |-> Err(IncompleteHeader), pos |-> Len(ls)]

\* after line 9 (masses_per_type): the header
HeaderDone(ls, p, boxl, angles, natm_types, natms, masses) ==
    IF masses.tag = "Err" THEN [res |-> masses, pos |-> p + 9]
    ELSE [res |-> Ok(FrameHeader(ls[p + 1], ls[p + 2], boxl, angles, ls[p + 5], ls[p + 6],
                                 natm_types, natms, masses.val)),
          pos |-> p + 9]

\* after line 8 (natms_per_type): line 9
HeaderMasses(ls, p, boxl, angles, natm_types, natms) ==
    IF natms.tag = "Err" THEN [res |-> natms, pos |-> p + 8]
    ELSE IF p + 9 > Len(ls) THEN HeaderEof(ls)
    ELSE HeaderDone(ls, p, boxl, angles, natm_types, natms.val,
                    parse_line_of_n(ls[p + 9], natm_types, "f64"))

\* after line 7 (natm_types): line 8
HeaderCounts(ls, p, boxl, angles, nt) ==
    IF nt.tag = "Err" THEN [res |-> nt, pos |-> p + 7]
    ELSE IF p + 8 > Len(ls) THEN HeaderEof(ls)
    ELSE HeaderMasses(ls, p, boxl, angles, nt.val[1],
                      parse_line_of_n(ls[p + 8], nt.val[1], "usize"))

\* mutant: a malformed angles line gives the lines of the header back
HeaderTypes_Restore(ls, p, boxl, angles) ==
    IF angles.tag = "Err" THEN [res |-> angles, pos |-> p]
    ELSE IF p + 7 > Len(ls) THEN HeaderEof(ls)
    ELSE HeaderCounts(ls, p, boxl, angles.val, parse_line_of_n(ls[p + 7], U(1), "usize"))

\* after line 4 (angles): lines 5 and 6 (text) and line 7
HeaderTypes(ls, p, boxl, angles) ==
    IF angles.tag = "Err" THEN [res |-> angles, pos |-> p + 4]
    ELSE IF p + 7 > Len(ls) THEN HeaderEof(ls)
    ELSE HeaderCounts(ls, p, boxl, angles.val, parse_line_of_n(ls[p + 7], U(1), "usize"))

\* after line 3 (boxl): line 4
HeaderAngles(ls, p, boxl) ==
    IF boxl.tag = "Err" THEN [res |-> boxl, pos |-> p + 3]
    ELSE IF p + 4 > Len(ls) THEN HeaderEof(ls)
    ELSE HeaderTypes(ls, p, boxl.val, parse_line_of_n(ls[p + 4], U(3), "f64"))

\* lines 1 and 2 (text) and line 3
parse_frame_header(ls, p) ==
    IF p + 3 > Len(ls) THEN HeaderEof(ls)
    ELSE HeaderAngles(ls, p, parse_line_of_n(ls[p + 3], U(3), "f64"))

----------------------------------------------------------------------------
(* parser.rs: parse_single_frame *)

AtomDatum(symbol, vals) ==
    [symbol |-> symbol,
     x |-> vals[1],
     y |-> vals[2],
     z |-> vals[3],
     is_fixed |-> F64NonZero(vals[4]),
     atom_id |-> F64AsU64(vals[5])]

\* mutant: each record is put in front of the records read so far
PushAtom_Prepend(atoms, symbol, vals) == <<AtomDatum(symbol, vals)>> \o atoms

\* atom_data.push(AtomDatum {..})
PushAtom(atoms, symbol, vals) == Append(atoms, AtomDatum(symbol, vals))

RECURSIVE ParseAtoms(_, _, _, _, _)

\* mutant: a malformed coordinate line is skipped instead of ending the decode
ParseAtom_SkipBad(ls, p, symbol, k, atoms, vals) ==
    IF vals.tag = "Err" THEN ParseAtoms(ls, p + 1, symbol, k - 1, atoms)
    ELSE ParseAtoms(ls, p + 1, symbol, k - 1, PushAtom(atoms, symbol, vals.val))

\* one coordinate line decoded: propagate its error or push the record
ParseAtom(ls, p, symbol, k, atoms, vals) ==
    IF vals.tag = "Err" THEN [res |-> vals, pos |-> p + 1]
    ELSE ParseAtoms(ls, p + 1, symbol, k - 1, PushAtom(atoms, symbol, vals.val))

\* the inner loop: `k` more coordinate lines of one block, pushed onto `atoms`
ParseAtoms(ls, p, symbol, k, atoms) ==
    IF k = 0 THEN [res |-> Ok(atoms), pos |-> p]
    ELSE IF p >= Len(ls) THEN [res |-> Err(IncompleteFrame), pos |-> Len(ls)]
    ELSE ParseAtom(ls, p, symbol, k, atoms, parse_line_of_n(ls[p + 1], U(CoordArity), "f64"))

\* one pass of the outer loop: label line, marker line, the block's atoms
\* (`for _ in 0..*num_atoms`: a count beyond the lines left runs out of lines)
ParseBlock(ls, p, num_atoms, atoms) ==
    IF p + 2 > Len(ls) THEN [res |-> Err(IncompleteFrame), pos |-> Len(ls)]
    ELSE ParseAtoms(ls, p + 2, trim(ls[p + 1]), Capped(num_atoms, Len(ls)), atoms)

\* the passes for types lo..hi in order, from the state `blk` the earlier
\* passes left; an error ends the loop.  The range is walked by halves.
RECURSIVE AfterBlock(_, _, _, _, _)
AfterBlock(ls, natms, lo, hi, blk) ==
    IF blk.res.tag = "Err" \/ lo > hi THEN blk
    ELSE IF lo = hi THEN ParseBlock(ls, blk.pos, natms[lo], blk.res.val)
    ELSE AfterBlock(ls, natms, (lo + hi) \div 2 + 1, hi,
                    AfterBlock(ls, natms, lo, (lo + hi) \div 2, blk))

\* the outer loop over header.natms_per_type
ParseBlocks(ls, p, natms, atoms) ==
    AfterBlock(ls, natms, 1, Len(natms), [res |-> Ok(atoms), pos |-> p])

ConFrame(header, atom_data) == [header |-> header, atom_data |-> atom_data]

FrameDone(header, body) ==
    IF body.res.tag = "Err" THEN body
    ELSE [res |-> Ok(ConFrame(header, body.res.val)), pos |-> body.pos]

FrameBody(ls, h) ==
    IF h.res.tag = "Err" THEN h
    ELSE FrameDone(h.res.val, ParseBlocks(ls, h.pos, h.res.val.natms_per_type, <<>>))

parse_single_frame(ls, p) == FrameBody(ls, parse_frame_header(ls, p))

----------------------------------------------------------------------------
(* iterators.rs: ConFrameIterator::forward and ::next.  `checks` tells     *)
(* whether the build checks integer overflow (a debug build does, and      *)
(* panics; a release build wraps).                                         *)

\* natm_types * 2
Twice(n) == UAdd(n, n)

\* mutant: one block-structure line per type instead of two
lines_to_skip_OnePerType(natm_types, natms_per_type) ==
    Both(SumSeq(natms_per_type), [ovf |-> FALSE, val |-> natm_types])

\* total_atoms + non_atom_lines: the wrapped value, and whether the sum, the
\* product or the addition overflowed
lines_to_skip(natm_types, natms_per_type) ==
    Both(SumSeq(natms_per_type), Twice(natm_types))

\* line 9 consumed unread, the number of lines to skip computed, then that
\* many lines discarded
ForwardSkip(ls, p, skip, checks) ==
    IF p + 9 > Len(ls) THEN HeaderEof(ls)
    ELSE IF skip.ovf /\ checks THEN [res |-> Panic, pos |-> p + 9]
    ELSE IF ULt(U(Len(ls) - (p + 9)), skip.val) THEN [res |-> Err(IncompleteFrame), pos |-> Len(ls)]
    ELSE [res |-> Ok(<<>>), pos |-> p + 9 + N(skip.val)]

\* after line 8 (natms_per_type)
ForwardMasses(ls, p, natm_types, natms, checks) ==
    IF natms.tag = "Err" THEN [res |-> natms, pos |-> p + 8]
    ELSE ForwardSkip(ls, p, lines_to_skip(natm_types, natms.val), checks)

\* mutant: a malformed type-count line leaves the cursor where the call began
ForwardCounts_Rewind(ls, p, nt, checks) ==
    IF nt.tag = "Err" THEN [res |-> nt, pos |-> p]
    ELSE IF p + 8 > Len(ls) THEN HeaderEof(ls)
    ELSE ForwardMasses(ls, p, nt.val[1], parse_line_of_n(ls[p + 8], nt.val[1], "usize"), checks)

\* mutant: the per-type counts are read without checking their number
ForwardCounts_NoArity(ls, p, nt, checks) ==
    IF nt.tag = "Err" THEN [res |-> nt, pos |-> p + 7]
    ELSE IF p + 8 > Len(ls) THEN HeaderEof(ls)
    ELSE ForwardMasses(ls, p, nt.val[1],
                       parse_line_of_n(ls[p + 8], U(Len(split_whitespace(ls[p + 8]))), "usize"),
                       checks)

\* after line 7 (natm_types): line 8
ForwardCounts(ls, p, nt, checks) ==
    IF nt.tag = "Err" THEN [res |-> nt, pos |-> p + 7]
    ELSE IF p + 8 > Len(ls) THEN HeaderEof(ls)
    ELSE ForwardMasses(ls, p, nt.val[1], parse_line_of_n(ls[p + 8], nt.val[1], "usize"), checks)

\* mutant: forward() does not look for a remaining line before it reads
forward_NoPeek(ls, p, checks) ==
    IF p + 7 > Len(ls) THEN HeaderEof(ls)
    ELSE ForwardCounts(ls, p, parse_line_of_n(ls[p + 7], U(1), "usize"), checks)

\* peek, six lines consumed unread, then line 7
forward(ls, p, checks) ==
    IF p >= Len(ls) THEN [res |-> None, pos |-> p]
    ELSE IF p + 7 > Len(ls) THEN HeaderEof(ls)
    ELSE ForwardCounts(ls, p, parse_line_of_n(ls[p + 7], U(1), "usize"), checks)

\* mutant: blank lines at the end of the input are taken for the end of the stream
next_SkipBlank(ls, p) ==
    IF \A i \in (p + 1)..Len(ls) : trim(ls[i]) = <<>> THEN [res |-> None, pos |-> p]
    ELSE parse_single_frame(ls, p)

next(ls, p) ==
    IF p >= Len(ls) THEN [res |-> None, pos |-> p]
    ELSE parse_single_frame(ls, p)

----------------------------------------------------------------------------
(* Formatting: join, writeln!, str::lines                                  *)

RECURSIVE Join(_, _)
Join(ts, sep) ==
    IF ts = <<>> THEN <<>>
    ELSE IF Len(ts) = 1 THEN ts[1]
    ELSE Join(SubSeq(ts, 1, Len(ts) \div 2), sep) \o sep
         \o Join(SubSeq(ts, Len(ts) \div 2 + 1, Len(ts)), sep)

Writeln(l) == l \o <<LF>>

\* str::lines: split at "\n", a "\r" before a "\n" dropped, the final line
\* ending optional (a final line without "\n" keeps its "\r")
StripCr(l) == IF l # <<>> /\ l[Len(l)] = CR THEN SubSeq(l, 1, Len(l) - 1) ELSE l

str_lines(text) ==
    LET nl == {i \in 1..Len(text) : text[i] = LF}
        n == Cardinality(nl)
        \* the position of the k-th line ending, 0 for k = 0
        at(k) == IF k = 0 THEN 0
                 ELSE CHOOSE i \in nl : Cardinality({j \in nl : j <= i}) = k
        whole == [k \in 1..n |-> StripCr(SubSeq(text, at(k - 1) + 1, at(k) - 1))]
    IN  IF at(n) = Len(text) THEN whole
        ELSE Append(whole, SubSeq(text, at(n) + 1, Len(text)))

----------------------------------------------------------------------------
(* writer.rs: ConFrameWriter::write_frame and ::extend.  The result is     *)
(* [tag, text]: "Ok" with the text written, or "Panic" (an index out of    *)
(* the bounds of atom_data) with the text written before it.               *)

MarkerPrefix ==
    Str(<<"C", "o", "o", "r", "d", "i", "n", "a", "t", "e", "s", " ", "o", "f", " ",
          "C", "o", "m", "p", "o", "n", "e", "n", "t", " ">>)

WriteHeader(h) ==
    Writeln(h.prebox_header[1])
    \o Writeln(h.prebox_header[2])
    \o Writeln(Join([i \in 1..3 |-> FmtF64(h.boxl[i], FLOAT_PRECISION)], <<Space>>))
    \o Writeln(Join([i \in 1..3 |-> FmtF64(h.angles[i], FLOAT_PRECISION)], <<Space>>))
    \o Writeln(h.postbox_header[1])
    \o Writeln(h.postbox_header[2])
    \o Writeln(DecDigits(h.natm_types))
    \o Writeln(Join([i \in 1..Len(h.natms_per_type) |-> DecDigits(h.natms_per_type[i])], <<Space>>))
    \o Writeln(Join([i \in 1..Len(h.masses_per_type) |->
                        FmtF64(h.masses_per_type[i], FLOAT_PRECISION)], <<Space>>))

WriteAtom(atom) ==
    Writeln(Join(<<FmtF64(atom.x, FLOAT_PRECISION),
                   FmtF64(atom.y, FLOAT_PRECISION),
                   FmtF64(atom.z, FLOAT_PRECISION),
                   DecDigits(U(IF atom.is_fixed THEN FIXED_ATOM_FLAG ELSE FREE_ATOM_FLAG)),
                   DecDigits(atom.atom_id)>>, <<Space>>))

\* the label of a type block: frame.atom_data[atom_idx_offset].symbol
BlockSymbolIndex(atom_idx_offset) == atom_idx_offset + 1

\* the inner loop: atoms atom_idx_offset + i, i in 0..num_atoms_in_type
RECURSIVE WriteAtoms(_, _, _, _, _)
WriteAtoms(frame, atom_idx_offset, i, num_atoms_in_type, acc) ==
    IF i >= num_atoms_in_type THEN [tag |-> "Ok", text |-> acc]
    ELSE IF atom_idx_offset + i + 1 > Len(frame.atom_data) THEN [tag |-> "Panic", text |-> acc]
    ELSE WriteAtoms(frame, atom_idx_offset, i + 1, num_atoms_in_type,
                    acc \o WriteAtom(frame.atom_data[atom_idx_offset + i + 1]))

\* one pass of the outer loop, type_idx 0-based as in the code: the label of
\* the record at atom_idx_offset, the marker, the atoms of the block (a count
\* beyond the records there are runs out of atom_data)
WriteBlock(frame, type_idx, atom_idx_offset, acc) ==
    IF BlockSymbolIndex(atom_idx_offset) > Len(frame.atom_data)
    THEN [tag |-> "Panic", text |-> acc]
    ELSE WriteAtoms(frame, atom_idx_offset, 0,
                    Capped(frame.header.natms_per_type[type_idx + 1], Len(frame.atom_data)),
                    acc \o Writeln(frame.atom_data[BlockSymbolIndex(atom_idx_offset)].symbol)
                        \o Writeln(MarkerPrefix \o DecDigits(U(type_idx + 1))))

\* atom_idx_offset += num_atoms_in_type (reached when every record of the
\* block was there, so the sum is an index of atom_data or its length)
Advanced(frame, type_idx, atom_idx_offset, w) ==
    [tag |-> w.tag, text |-> w.text,
     off |-> IF w.tag = "Panic" THEN atom_idx_offset
             ELSE atom_idx_offset + N(frame.header.natms_per_type[type_idx + 1])]

\* the passes for types lo..hi in order, from the state `blk` = [tag, text,
\* off] the earlier passes left; a panic ends the loop.  The range is walked
\* by halves.
RECURSIVE AfterWrittenBlock(_, _, _, _)
AfterWrittenBlock(frame, lo, hi, blk) ==
    IF blk.tag = "Panic" \/ lo > hi THEN blk
    ELSE IF lo = hi
         THEN Advanced(frame, lo, blk.off, WriteBlock(frame, lo, blk.off, blk.text))
    ELSE AfterWrittenBlock(frame, (lo + hi) \div 2 + 1, hi,
                           AfterWrittenBlock(frame, lo, (lo + hi) \div 2, blk))

\* the outer loop over header.natms_per_type
WriteBlocks(frame, type_idx, atom_idx_offset, acc) ==
    AfterWrittenBlock(frame, type_idx, Len(frame.header.natms_per_type) - 1,
                      [tag |-> "Ok", text |-> acc, off |-> atom_idx_offset])

\* the io::Result of the call and the text that reached the writer
WriteResult(blk) == [tag |-> blk.tag, text |-> blk.text]

write_frame(frame) == WriteResult(WriteBlocks(frame, 0, 0, WriteHeader(frame.header)))

RECURSIVE ExtendFrom(_, _)

\* self.write_frame(frame)?
AfterFrame(fs, acc, w) ==
    IF w.tag = "Panic" THEN [tag |-> "Panic", text |-> acc \o w.text]
    ELSE ExtendFrom(Tail(fs), acc \o w.text)

ExtendFrom(fs, acc) ==
    IF fs = <<>> THEN [tag |-> "Ok", text |-> acc]
    ELSE AfterFrame(fs, acc, write_frame(Head(fs)))

extend(fs) == ExtendFrom(fs, <<>>)

\* Iterator::collect over a fresh ConFrameIterator: every item until None
RECURSIVE DecodeFrom(_, _)

DecodeItem(ls, r) == IF r.res.tag = "None" THEN <<>> ELSE <<r.res>> \o DecodeFrom(ls, r.pos)

DecodeFrom(ls, p) == DecodeItem(ls, next(ls, p))

DecodeAll(ls) == DecodeFrom(ls, 0)

----------------------------------------------------------------------------
(* Input files.  A file is up to MaxFrames frames drawn from the templates *)
(* below (the fixtures of parser.rs's tests and of the format's examples), *)
(* undamaged, cut short after any line, with one line replaced by a        *)
(* malformed one, or followed by one blank line.  The fixture also names   *)
(* the build that reads the file.                                          *)

Sp == <<Space>>
T0 == Str(<<"0">>)
T1 == Str(<<"1">>)
T2 == Str(<<"2">>)
T3 == Str(<<"3">>)
T4 == Str(<<"4">>)
T5 == Str(<<"5">>)
T6 == Str(<<"6">>)
T10 == Str(<<"1", "0">>)
T90 == Str(<<"9", "0">>)
T1p0 == Str(<<"1", ".", "0">>)
T1p5 == Str(<<"1", ".", "5">>)
Tm2p25 == Str(<<"-", "2", ".", "2", "5">>)
T7d == Str(<<"0", ".", "1", "2", "3", "4", "5", "6", "7">>)
T12p011 == Str(<<"1", "2", ".", "0", "1", "1">>)
T1p008 == Str(<<"1", ".", "0", "0", "8">>)
T4p7 == Str(<<"4", ".", "7">>)
Tabc == Str(<<"a", "b", "c">>)
\* usize::MAX, and the number before it
TMax == DigitText(USIZE_MAX_DIGITS)
TMaxLess1 == DigitText(SubSeq(USIZE_MAX_DIGITS, 1, 19) \o <<4>>)

LnPre1 == Str(<<"A">>)
LnPre2 == Str(<<"B", " ", "x">>)
LnPost1 == Str(<<"C">>)
LnPost2 == Str(<<"D">>)
LnBox == Join(<<T10, T10, T10>>, Sp)
LnBoxDec == Join(<<T10, T1p5, T7d>>, Sp)
LnAngles == Join(<<T90, T90, T90>>, Sp)
Marker(i) == MarkerPrefix \o DecDigits(U(i))

\* "A","B","10 10 10","90 90 90","C","D","1","2","1.0","X",marker,"0 0 0 0 1","1 0 0 1 2"
FrameX ==
    [counts |-> <<2>>,
     text |-> <<LnPre1, LnPre2, LnBox, LnAngles, LnPost1, LnPost2, T1, T2, T1p0,
                Str(<<"X">>), Marker(1),
                Join(<<T0, T0, T0, T0, T1>>, Sp),
                Join(<<T1, T0, T0, T1, T2>>, Sp)>>]

\* two types of one atom each; padded label, repeated blanks, 7 fractional digits
FrameCuH ==
    [counts |-> <<1, 1>>,
     text |-> <<LnPre1, LnPre2, LnBoxDec, LnAngles, LnPost1, LnPost2, T2,
                Join(<<T1, T1>>, Sp), Join(<<T12p011, T1p008>>, Sp),
                Str(<<" ", "C", "u", " ">>), Marker(1),
                <<Space>> \o T1p5 \o Str(<<" ", " ">>) \o Join(<<Tm2p25, T7d, T0, T3>>, Sp),
                Str(<<"H">>), Marker(2),
                Join(<<T0, T0, T1p5, T1, T4p7>>, Sp)>>]

\* no types: the per-type lines are empty
FrameEmpty ==
    [counts |-> <<>>,
     text |-> <<LnPre1, LnPre2, LnBox, LnAngles, LnPost1, LnPost2, T0, <<>>, <<>>>>]

\* the last type has no atoms
FrameZeroLast ==
    [counts |-> <<1, 0>>,
     text |-> <<LnPre1, LnPre2, LnBox, LnAngles, LnPost1, LnPost2, T2,
                Join(<<T1, T0>>, Sp), Join(<<T1p0, T1p0>>, Sp),
                Str(<<"X">>), Marker(1),
                Join(<<T1, T2, T3, T0, T5>>, Sp),
                Str(<<"H">>), Marker(2)>>]

\* the first type has no atoms
FrameZeroFirst ==
    [counts |-> <<0, 1>>,
     text |-> <<LnPre1, LnPre2, LnBox, LnAngles, LnPost1, LnPost2, T2,
                Join(<<T0, T1>>, Sp), Join(<<T1p0, T1p0>>, Sp),
                Str(<<"X">>), Marker(1),
                Str(<<"H">>), Marker(2),
                Join(<<T1, T2, T3, T1, T6>>, Sp)>>]

Templates == <<FrameX, FrameCuH, FrameEmpty, FrameZeroLast, FrameZeroFirst>>

\* the lines that replace a line of a damaged file
BadLines ==
    <<Tabc,
      Join(<<T1, T2>>, Sp),
      <<>>,
      Join(<<T1, T2, T3, T4, T5, T6>>, Sp),
      Join(<<T1, T2, T3, T4>>, Sp),
      Join(<<TMax, T1>>, Sp),
      TMaxLess1>>

\* the lines of BadLines that, taken as per-type counts, make the sum of
\* forward() pass usize::MAX
OverflowLines == {Join(<<TMax, T1>>, Sp), TMaxLess1}

\* the role of each line of a template, from its per-type counts
RolesOf(counts) ==
    <<"text", "text", "box", "angles", "text", "text", "ntypes", "counts", "masses">>
    \o Concat([i \in 1..Len(counts) |->
                  <<"label", "marker">> \o [k \in 1..counts[i] |-> "coord"]])

SeqsUpTo(S, n) == UNION {[1..k -> S] : k \in 0..n}

FileOf(tpl) == Concat([i \in 1..Len(tpl) |-> Templates[tpl[i]].text])

RolesOfFile(tpl) == Concat([i \in 1..Len(tpl) |-> RolesOf(Templates[tpl[i]].counts)])

\* the sum of a sequence of numbers of the model
RECURSIVE Total(_)
Total(s) ==
    IF s = <<>> THEN 0
    ELSE IF Len(s) = 1 THEN s[1]
    ELSE Total(SubSeq(s, 1, Len(s) \div 2)) + Total(SubSeq(s, Len(s) \div 2 + 1, Len(s)))

\* the number of lines before frame i of an undamaged file
FrameStart(tpl, i) ==
    Total([j \in 1..(IF i - 1 <= Len(tpl) THEN i - 1 ELSE Len(tpl)) |->
               Len(Templates[tpl[j]].text)])

NoDamage == [kind |-> "none", at |-> 0, with |-> 0]

\* the lines of BadLines that replace line j of a file: the lines of
\* OverflowLines replace a line of per-type counts only
ReplacingLines(tpl, j) ==
    {b \in 1..Len(BadLines) : BadLines[b] \in OverflowLines => RolesOfFile(tpl)[j] = "counts"}

\* a cut falls inside the last frame, a replaced line inside the first one
Damages(tpl) ==
    {NoDamage, [kind |-> "blank", at |-> 0, with |-> 0]}
    \cup {[kind |-> "trunc", at |-> t, with |-> 0] :
              t \in (FrameStart(tpl, Len(tpl)) + 1)..(Len(FileOf(tpl)) - 1)}
    \cup UNION {{[kind |-> "replace", at |-> j, with |-> b] : b \in ReplacingLines(tpl, j)} :
                    j \in 1..FrameStart(tpl, 2)}

Damaged(ls, d) ==
    CASE d.kind = "none" -> ls
      [] d.kind = "blank" -> Append(ls, <<>>)
      [] d.kind = "trunc" -> SubSeq(ls, 1, d.at)
      [] d.kind = "replace" -> [ls EXCEPT ![d.at] = BadLines[d.with]]

\* the builds a file is read by: with overflow checks (a debug build) or
\* without (a release build).  The two differ only where a sum of forward()
\* overflows, so a file without such a line is read by one of them.
Builds(d) ==
    IF d.kind = "replace" /\ BadLines[d.with] \in OverflowLines THEN BOOLEAN ELSE {FALSE}

Inputs ==
    UNION {UNION {{[tpl |-> t, dmg |-> d, checks |-> c] : c \in Builds(d)} : d \in Damages(t)} :
              t \in SeqsUpTo(1..Len(Templates), MaxFrames)}

LinesOf(in) == Damaged(FileOf(in.tpl), in.dmg)

----------------------------------------------------------------------------
(* The iterator and the writer as a state machine *)

NoCall == [op |-> "none", from |-> 0, res |-> None]
\* no boundary call made yet: no handle, no file
NoIterator == [handle |-> "none", parser |-> "none", buffer |-> "none"]
NoReturn == [op |-> "none", status |-> "returned", val |-> 0]
NoFile == [exists |-> FALSE, text |-> <<>>]
NoProbe == [line |-> <<>>, toks |-> <<>>, n |-> 0, ty |-> "none", res |-> None]

Init ==
    /\ input \in Inputs
    /\ lines = LinesOf(input)
    /\ pos = 0
    /\ ncalls = 0
    /\ last = NoCall
    /\ frames = <<>>
    /\ out = <<>>
    /\ wstate = "idle"
    /\ reread = <<>>
    /\ probe = NoProbe
    /\ iter = NoIterator
    /\ cframes = <<>>
    /\ ret = NoReturn
    /\ disk = NoFile

\* a call returned `r`: the cursor moves, the result goes to the caller
Returned(op, r) ==
    /\ pos' = r.pos
    /\ last' = [op |-> op, from |-> pos, res |-> r.res]
    /\ ncalls' = ncalls + 1
    /\ UNCHANGED <<input, lines, frames, out, wstate, reread, probe, boundary>>

\* ConFrameIterator::next (no call follows one that panicked)
CallNext ==
    /\ ncalls < MaxCalls
    /\ last.res # Panic
    /\ Returned("next", next(lines, pos))

\* ConFrameIterator::forward
CallForward ==
    /\ ncalls < MaxCalls
    /\ last.res # Panic
    /\ Returned("forward", forward(lines, pos, input.checks))

Next == CallNext \/ CallForward

Spec == Init /\ [][Next]_vars
----------------------------------------------------------------------------
(* Reading a whole file, writing the frames read and reading them back:    *)
(* main.rs and tests/conwriter.rs                                          *)

OkFrames(rs) ==
    LET ok == {i \in 1..Len(rs) : rs[i].tag = "Ok"}
        at(k) == CHOOSE i \in ok : Cardinality({j \in ok : j <= i}) = k
    IN  [k \in 1..Cardinality(ok) |-> rs[at(k)].val]

Collected(rs) ==
    /\ frames' = OkFrames(rs)
    /\ ncalls' = Len(rs) + 1

\* the iterator drained by filter_map(Ok) and collect(): the valid frames
Collect ==
    /\ wstate = "idle"
    /\ Collected(DecodeAll(lines))
    /\ pos' = Len(lines)
    /\ last' = [op |-> "next", from |-> Len(lines), res |-> None]
    /\ wstate' = "collected"
    /\ UNCHANGED <<input, lines, out, reread, probe, boundary>>

Written(w) ==
    /\ out' = w.text
    /\ wstate' = IF w.tag = "Ok" THEN "written" ELSE "panicked"

\* ConFrameWriter::extend over the frames collected
Extend ==
    /\ wstate = "collected"
    /\ Written(extend(frames))
    /\ UNCHANGED <<input, lines, pos, ncalls, last, frames, reread, probe, boundary>>

\* a fresh ConFrameIterator over the written text, collected
Reread ==
    /\ wstate = "written"
    /\ reread' = DecodeAll(str_lines(out))
    /\ wstate' = "reread"
    /\ UNCHANGED <<input, lines, pos, ncalls, last, frames, out, probe, boundary>>

NextWriter == Collect \/ Extend \/ Reread

SpecWriter == Init /\ [][NextWriter]_vars

----------------------------------------------------------------------------
(* The line-value decoder on its own: parse_line_of_n applied to lines     *)
(* built from known tokens, with single blanks or with padding.            *)

Tp7 == Str(<<"+", "7">>)
T2p5 == Str(<<"2", ".", "5">>)
Tm3 == Str(<<"-", "3">>)
T1e2 == Str(<<"1", "e", "2">>)
TNaN == Str(<<"N", "a", "N">>)
\* 2 * 10^19, above usize::MAX
TOver == DigitText(<<2>> \o Zeros(19))

ProbeTokens == {T1, T2p5, Tm3, Tabc, Tp7, T1e2, TNaN, TOver}

\* blanks of several kinds around the tokens: space, tab, form feed and
\* U+00A0 between them
Padded(toks) == <<Space>> \o Join(toks, Str(<<"\t", "\f">>) \o <<160>>) \o Str(<<" ", " ">>)

InitLine ==
    /\ input = [tpl |-> <<>>, dmg |-> NoDamage, checks |-> FALSE]
    /\ lines = <<>>
    /\ pos = 0
    /\ ncalls = 0
    /\ last = NoCall
    /\ frames = <<>>
    /\ out = <<>>
    /\ wstate = "idle"
    /\ reread = <<>>
    /\ probe = NoProbe
    /\ iter = NoIterator
    /\ cframes = <<>>
    /\ ret = NoReturn
    /\ disk = NoFile

\* one application of parse_line_of_n, to a line and an arity chosen freely
ProbeLine ==
    /\ probe.ty = "none"
    /\ \E toks \in SeqsUpTo(ProbeTokens, MaxArity), pad \in BOOLEAN,
          n \in 0..MaxArity, ty \in {"f64", "usize"} :
          LET line == IF pad THEN Padded(toks) ELSE Join(toks, Sp)
          IN  probe' = [line |-> line, toks |-> toks, n |-> n, ty |-> ty,
                        res |-> parse_line_of_n(line, U(n), ty)]
    /\ UNCHANGED <<input, lines, pos, ncalls, last, frames, out, wstate, reread, boundary>>

NextLine == ProbeLine

SpecLine == InitLine /\ [][NextLine]_vars

----------------------------------------------------------------------------
(* Claims *)

WellFormedInput == input.dmg.kind = "none"
NumFrames == Len(input.tpl)
\* numbers of the model as usize values, and small usize values as numbers
Limbed(s) == [i \in 1..Len(s) |-> U(s[i])]
Small(us) == [i \in 1..Len(us) |-> N(us[i])]
\* frame i of the file, decoded on its own
FrameAlone(i) == parse_single_frame(Templates[input.tpl[i]].text, 0).res.val

\* C1: on an input of k well-formed frames every one of the first k calls,
\* next() or forward() in any mix, returns Some(Ok), the i-th call starts at
\* frame i and ends at frame i + 1 (a next() returns frame i itself), and
\* every call after the k-th returns None with the cursor at the end.
C1_SkipEquivalence ==
    (WellFormedInput /\ ncalls >= 1) =>
        IF ncalls <= NumFrames
        THEN /\ last.res.tag = "Ok"
             /\ last.from = FrameStart(input.tpl, ncalls)
             /\ pos = FrameStart(input.tpl, ncalls + 1)
             /\ last.op = "next" =>
                   /\ last.res.val = FrameAlone(ncalls)
                   /\ last.res.val.header.natms_per_type = Limbed(Templates[input.tpl[ncalls]].counts)
        ELSE /\ last.res = None
             /\ pos = Len(lines)

C1_Witness ==
    /\ WellFormedInput
    /\ NumFrames = 2
    /\ input.tpl[1] # input.tpl[2]
    /\ ncalls = 3
    /\ last.op = "forward"
    /\ last.res = None

\* C3: parse_line_of_n(line, n) is Ok exactly when the line has n tokens that
\* all parse, and then holds the n parsed values in token order; otherwise it
\* is InvalidNumberFormat or InvalidVectorLength, never a vector.
C3_ArityInvariant ==
    probe.ty # "none" =>
        LET toks == probe.toks
            allParse == \A i \in 1..Len(toks) : Parse(probe.ty, toks[i]).tag = "Ok"
        IN  /\ probe.res.tag = "Ok" <=> (Len(toks) = probe.n /\ allParse)
            /\ probe.res.tag = "Ok" =>
                  /\ Len(probe.res.val) = probe.n
                  /\ \A i \in 1..probe.n : probe.res.val[i] = Parse(probe.ty, toks[i]).val
            /\ probe.res.tag # "Ok" =>
                  /\ probe.res.tag = "Err"
                  /\ probe.res.err.kind \in {"InvalidNumberFormat", "InvalidVectorLength"}

C3_Witness ==
    /\ probe.ty = "f64"
    /\ probe.n = 3
    /\ probe.toks = <<T1, T2p5, Tm3>>
    /\ probe.line = Padded(probe.toks)
    /\ probe.res.tag = "Ok"

\* where block i of the frame decoded from `from` starts: the lines before its label
BlockStart(from, natms, i) == from + HeaderLines + Total([j \in 1..(i - 1) |-> natms[j] + 2])
\* how many atom records precede block i
BlockOffset(natms, i) == Total([j \in 1..(i - 1) |-> natms[j]])

\* C4: a frame returned Ok has sum(natms_per_type) atom records, grouped by
\* type in header order: record k of block i carries the trimmed label line
\* of block i and the values of the k-th coordinate line of that block.
C4_GroupingInvariant ==
    (last.op = "next" /\ last.res.tag = "Ok") =>
        LET f == last.res.val
            natms == Small(f.header.natms_per_type)
        IN  /\ Total(natms) = Len(f.atom_data)
            /\ \A i \in 1..Len(natms) : \A k \in 1..natms[i] :
                  LET b == BlockStart(last.from, natms, i)
                      a == f.atom_data[BlockOffset(natms, i) + k]
                      v == parse_line_of_n(lines[b + 2 + k], U(5), "f64").val
                  IN  /\ a.symbol = trim(lines[b + 1])
                      /\ <<a.x, a.y, a.z>> = <<v[1], v[2], v[3]>>
                      /\ a.is_fixed = F64NonZero(v[4])
                      /\ a.atom_id = F64AsU64(v[5])

C4_Witness ==
    /\ last.op = "next"
    /\ last.res.tag = "Ok"
    /\ last.from > 0
    /\ last.res.val.header.natms_per_type = <<U(1), U(1)>>
    /\ last.res.val.atom_data[1].symbol = Str(<<"C", "u">>)

\* C5: next() returns None exactly when no line remains at the cursor; with a
\* line left it returns the result of one decoder pass from the cursor, so a
\* trailing blank line and a frame cut short each give one Some(Err).
C5_NextNoneIffExhausted ==
    last.op = "next" =>
        /\ last.res = None <=> last.from >= Len(lines)
        /\ last.from < Len(lines) =>
              /\ last.res = parse_single_frame(lines, last.from).res
              /\ pos = parse_single_frame(lines, last.from).pos
        /\ (input.dmg.kind = "blank" /\ last.from = Len(lines) - 1) =>
              last.res = Err(IncompleteHeader)
        /\ (input.dmg.kind = "trunc" /\ last.from = FrameStart(input.tpl, NumFrames)) =>
              /\ last.res.tag = "Err"
              /\ pos = Len(lines)

C5_Witness ==
    /\ input.dmg.kind = "blank"
    /\ NumFrames = 2
    /\ last.op = "next"
    /\ last.from = Len(lines) - 1
    /\ last.res = Err(IncompleteHeader)
    /\ pos = Len(lines)

\* the header decoder's outcome at the cursor the last call started from
HeaderAtLast == parse_frame_header(lines, last.from)

\* C6 as claimed: on a frame whose header is corrupted, forward() returns the
\* error kind next() returns from the same cursor.
C6_ForwardFailsLikeNext ==
    (last.op = "forward" /\ last.from < Len(lines) /\ HeaderAtLast.res.tag = "Err") =>
        /\ last.res.tag = "Err"
        /\ last.res.err.kind = next(lines, last.from).res.err.kind

\* C6 amended: when the header fails at a missing line or at the type-count
\* or per-type-count line (lines 7 and 8), forward() returns the error next()
\* returns from the same cursor and leaves the cursor where next() leaves it.
C6_ForwardFailsLikeNextOnReadLines ==
    (/\ last.op = "forward"
     /\ last.from < Len(lines)
     /\ HeaderAtLast.res.tag = "Err"
     /\ \/ HeaderAtLast.res.err = IncompleteHeader
        \/ HeaderAtLast.pos - last.from \in {7, 8}) =>
        /\ last.res = next(lines, last.from).res
        /\ pos = next(lines, last.from).pos

C6_Witness ==
    /\ last.op = "forward"
    /\ input.dmg.kind = "replace"
    /\ HeaderAtLast.res.tag = "Err"
    /\ HeaderAtLast.pos - last.from = 8
    /\ last.res = Err(InvalidVectorLength(U(2), U(6)))

\* the sum of usize values as a number, never wrapped
RECURSIVE WideSum(_)
WideSum(us) ==
    IF us = <<>> THEN U(0)
    ELSE IF Len(us) = 1 THEN us[1]
    ELSE UWide(WideSum(SubSeq(us, 1, Len(us) \div 2)),
               WideSum(SubSeq(us, Len(us) \div 2 + 1, Len(us))))

\* C7: once forward() has read a header with type count N and counts c, it
\* discards sum(c) + 2 * N further lines and returns Some(Ok(())), or returns
\* IncompleteFrame if fewer lines remain; it returns no atom record.
C7_ForwardSkipsWholeFrame ==
    (last.op = "forward" /\ last.from + HeaderLines <= Len(lines)) =>
        LET nt == parse_line_of_n(lines[last.from + 7], U(1), "usize")
            c == parse_line_of_n(lines[last.from + 8], nt.val[1], "usize")
            skip == UWide(WideSum(c.val), UWide(nt.val[1], nt.val[1]))
        IN  (nt.tag = "Ok" /\ c.tag = "Ok") =>
                IF ~ULt(U(Len(lines) - (last.from + HeaderLines)), skip)
                THEN /\ last.res = Ok(<<>>)
                     /\ pos = last.from + HeaderLines + N(skip)
                ELSE /\ last.res = Err(IncompleteFrame)
                     /\ pos = Len(lines)

\* the same on the files whose counts add up within usize
C7_ForwardSkipsWithinUsize ==
    (/\ last.op = "forward"
     /\ last.from + HeaderLines <= Len(lines)
     /\ ~(input.dmg.kind = "replace" /\ BadLines[input.dmg.with] \in OverflowLines)) =>
        LET nt == parse_line_of_n(lines[last.from + 7], U(1), "usize")
            c == parse_line_of_n(lines[last.from + 8], nt.val[1], "usize")
            skip == UWide(WideSum(c.val), UWide(nt.val[1], nt.val[1]))
        IN  (nt.tag = "Ok" /\ c.tag = "Ok") =>
                IF ~ULt(U(Len(lines) - (last.from + HeaderLines)), skip)
                THEN /\ last.res = Ok(<<>>)
                     /\ pos = last.from + HeaderLines + N(skip)
                ELSE /\ last.res = Err(IncompleteFrame)
                     /\ pos = Len(lines)

\* per-type counts whose sum passes usize::MAX, read by forward()
C7_OverflowReached ==
    /\ last.op = "forward"
    /\ input.dmg.kind = "replace"
    /\ input.dmg.at = last.from + 8
    /\ BadLines[input.dmg.with] \in OverflowLines
    /\ last.res \in {Panic, Ok(<<>>)}

\* C8: when the lines run out inside a frame whose present lines are all
\* well-formed, the decoder fails with IncompleteHeader if fewer than 9 lines
\* of the frame are present and with IncompleteFrame otherwise.
C8_ExhaustionErrors ==
    (/\ input.dmg.kind = "trunc"
     /\ last.op = "next"
     /\ last.from = FrameStart(input.tpl, NumFrames)) =>
        last.res = Err(IF input.dmg.at - last.from < HeaderLines
                       THEN IncompleteHeader
                       ELSE IncompleteFrame)

C8_Witness ==
    /\ input.dmg.kind = "trunc"
    /\ last.op = "next"
    /\ last.from = FrameStart(input.tpl, NumFrames)
    /\ last.from > 0
    /\ input.dmg.at - last.from = 8
    /\ last.res = Err(IncompleteHeader)

\* how many tokens each of BadLines has
BadTokenCount == <<1, 2, 0, 6, 4, 2, 1>>

\* C9: a coordinate line of k # 5 numeric tokens makes the decoder return
\* InvalidVectorLength{expected: 5, found: k}: no frame is returned, and the
\* cursor stands after that line.
C9_CoordinateArity ==
    (/\ input.dmg.kind = "replace"
     /\ RolesOfFile(input.tpl)[input.dmg.at] = "coord"
     /\ input.dmg.with \in 2..Len(BadLines)
     /\ last.op = "next"
     /\ last.from = 0) =>
        /\ last.res = Err(InvalidVectorLength(U(5), U(BadTokenCount[input.dmg.with])))
        /\ pos = input.dmg.at

C9_Witness ==
    /\ input.dmg.kind = "replace"
    /\ RolesOfFile(input.tpl)[input.dmg.at] = "coord"
    /\ input.dmg.with = 4
    /\ last.op = "next"
    /\ last.from = 0
    /\ last.res = Err(InvalidVectorLength(U(5), U(6)))

----------------------------------------------------------------------------
(* The writer on the frames the decoder returns                             *)

\* a value as the format keeps it: its text at FLOAT_PRECISION digits
Eq6(a, b) == FmtF64(a, FLOAT_PRECISION) = FmtF64(b, FLOAT_PRECISION)

AtomEq6(a, b) ==
    /\ a.symbol = b.symbol
    /\ a.is_fixed = b.is_fixed
    /\ a.atom_id = b.atom_id
    /\ Eq6(a.x, b.x) /\ Eq6(a.y, b.y) /\ Eq6(a.z, b.z)

FrameEq6(a, b) ==
    /\ a.header.prebox_header = b.header.prebox_header
    /\ a.header.postbox_header = b.header.postbox_header
    /\ \A i \in 1..3 : Eq6(a.header.boxl[i], b.header.boxl[i])
    /\ \A i \in 1..3 : Eq6(a.header.angles[i], b.header.angles[i])
    /\ a.header.natm_types = b.header.natm_types
    /\ a.header.natms_per_type = b.header.natms_per_type
    /\ Len(a.header.masses_per_type) = Len(b.header.masses_per_type)
    /\ \A i \in 1..Len(a.header.masses_per_type) :
          Eq6(a.header.masses_per_type[i], b.header.masses_per_type[i])
    /\ Len(a.atom_data) = Len(b.atom_data)
    /\ \A k \in 1..Len(a.atom_data) : AtomEq6(a.atom_data[k], b.atom_data[k])

\* C2: the frames decoded from a well-formed file, written with extend and
\* decoded again, come back in the same number and equal field for field,
\* numbers compared at 6 fractional digits.
C2_RoundTrip ==
    (WellFormedInput /\ wstate \in {"written", "panicked", "reread"}) =>
        /\ wstate # "panicked"
        /\ wstate = "reread" =>
              /\ Len(reread) = Len(frames)
              /\ \A i \in 1..Len(reread) :
                    /\ reread[i].tag = "Ok"
                    /\ FrameEq6(reread[i].val, frames[i])

\* the coordinate line of one record as the format lays it out
CoordLine(atom) ==
    Join(<<FmtF64(atom.x, FLOAT_PRECISION), FmtF64(atom.y, FLOAT_PRECISION),
           FmtF64(atom.z, FLOAT_PRECISION),
           IF atom.is_fixed THEN Str(<<"1">>) ELSE Str(<<"0">>),
           DecDigits(atom.atom_id)>>, Sp)

\* the layout of the text written for frame f, ls its lines
FrameLayout(f, ls) ==
    LET h == f.header
        natms == Small(h.natms_per_type)
        NT == Len(natms)
    IN  /\ Len(ls) = HeaderLines + 2 * NT + Len(f.atom_data)
        /\ ls[1] = h.prebox_header[1] /\ ls[2] = h.prebox_header[2]
        /\ ls[3] = Join([i \in 1..3 |-> FmtF64(h.boxl[i], FLOAT_PRECISION)], Sp)
        /\ ls[4] = Join([i \in 1..3 |-> FmtF64(h.angles[i], FLOAT_PRECISION)], Sp)
        /\ ls[5] = h.postbox_header[1] /\ ls[6] = h.postbox_header[2]
        /\ ls[7] = DecDigits(h.natm_types)
        /\ ls[8] = Join([i \in 1..NT |-> DecDigits(h.natms_per_type[i])], Sp)
        /\ ls[9] = Join([i \in 1..NT |-> FmtF64(h.masses_per_type[i], FLOAT_PRECISION)], Sp)
        /\ \A t \in 1..NT :
              LET b == BlockOffset(natms, t)
                  s == HeaderLines + b + 2 * (t - 1)
              IN  /\ natms[t] > 0 => ls[s + 1] = f.atom_data[b + 1].symbol
                  /\ ls[s + 2] = Marker(t)
                  /\ \A k \in 1..natms[t] : ls[s + 2 + k] = CoordLine(f.atom_data[b + k])

\* C10: for each frame the decoder returned (records grouped by type, as many
\* as the counts say) write_frame completes and emits 9 + 2 * N + total lines:
\* the header, then per type its label, its 1-based marker and its
\* coordinate lines in record order with flag 1 or 0.
C10_WriteLayout ==
    wstate # "idle" =>
        \A i \in 1..Len(frames) :
            /\ write_frame(frames[i]).tag = "Ok"
            /\ FrameLayout(frames[i], str_lines(write_frame(frames[i]).text))

----------------------------------------------------------------------------
(* The payload of InvalidNumberFormat *)

\* the probed line has a token that does not parse as the probed type
HasBadToken == \E i \in 1..Len(probe.toks) : Parse(probe.ty, probe.toks[i]).tag = "Err"

\* the first such token
FirstBadToken ==
    probe.toks[CHOOSE i \in 1..Len(probe.toks) :
                  /\ Parse(probe.ty, probe.toks[i]).tag = "Err"
                  /\ \A j \in 1..(i - 1) : Parse(probe.ty, probe.toks[j]).tag = "Ok"]

\* C20 as claimed: when a token fails to parse, the line-value decoder fails
\* with InvalidNumberFormat carrying the text of the first such token.
C20_PayloadIsToken ==
    (probe.ty # "none" /\ HasBadToken) =>
        probe.res = Err(InvalidNumberFormat(FirstBadToken))

\* C20 amended: when a token fails to parse, the line-value decoder fails
\* with InvalidNumberFormat, whatever the number of tokens, and the payload
\* is the message of the standard parse error of the target type for the
\* first such token ("invalid float literal", "invalid digit found in
\* string", or "number too large to fit in target type" for digits above
\* usize::MAX), not the token.
C20_PayloadIsMessage ==
    (probe.ty # "none" /\ HasBadToken) =>
        /\ probe.res = Err(InvalidNumberFormat(IF probe.ty = "f64" THEN FloatErrorInvalid
                                               ELSE IF AllDigits(FirstBadToken)
                                                    THEN IntErrorPosOverflow
                                                    ELSE IntErrorInvalidDigit))
        /\ probe.res.err.msg # FirstBadToken

C20_Witness ==
    /\ probe.ty = "usize"
    /\ probe.toks = <<T1, T2p5>>
    /\ probe.n = 1
    /\ probe.res = Err(InvalidNumberFormat(IntErrorInvalidDigit))

----------------------------------------------------------------------------
(* ffi.rs: the plain records handed across the boundary and the two         *)
(* conversions.  A fixed array is a sequence of its capacity (C index i is  *)
(* element i + 1); a c_char is a byte, 0 to 255.  A conversion that indexes *)
(* outside an array, or copies slices of different lengths, panics: its     *)
(* result is Panic.                                                         *)

HEADER_LINE_MAX_LEN == 256
MAX_ATOM_TYPES == 64

Null == [tag |-> "Null"]
\* Box::into_raw of a value / Some(value)
Boxed(v) == [tag |-> "Ptr", val |-> v]
Some(v) == [tag |-> "Some", val |-> v]

\* helpers: the element table, restricted to the labels of the inputs
ElementTable == <<[symbol |-> Str(<<"H">>), number |-> 1],
                  [symbol |-> Str(<<"C", "u">>), number |-> 29]>>
UnknownSymbol == Str(<<"X">>)

symbol_to_atomic_number(symbol) ==
    IF \E i \in 1..Len(ElementTable) : ElementTable[i].symbol = symbol
    THEN ElementTable[CHOOSE i \in 1..Len(ElementTable) : ElementTable[i].symbol = symbol].number
    ELSE 0

atomic_number_to_symbol(number) ==
    IF \E i \in 1..Len(ElementTable) : ElementTable[i].number = number
    THEN ElementTable[CHOOSE i \in 1..Len(ElementTable) : ElementTable[i].number = number].symbol
    ELSE UnknownSymbol

\* 0.0
PositiveZero == F64("fin", FALSE, Decimal(<<>>, 0))

\* [[0; HEADER_LINE_MAX_LEN]; 2] and [0; MAX_ATOM_TYPES]
ZeroLine == [i \in 1..HEADER_LINE_MAX_LEN |-> 0]
ZeroCounts == [i \in 1..MAX_ATOM_TYPES |-> U(0)]
ZeroMasses == [i \in 1..MAX_ATOM_TYPES |-> PositiveZero]

\* the UTF-8 encoding of one scalar value
Utf8Char(c) ==
    IF c < 128 THEN <<c>>
    ELSE IF c < 2048 THEN <<192 + (c \div 64), 128 + (c % 64)>>
    ELSE IF c < 65536
         THEN <<224 + (c \div 4096), 128 + ((c \div 64) % 64), 128 + (c % 64)>>
    ELSE <<240 + (c \div 262144), 128 + ((c \div 4096) % 64), 128 + ((c \div 64) % 64),
           128 + (c % 64)>>

\* str::as_bytes
as_bytes(s) == Concat([i \in 1..Len(s) |-> Utf8Char(s[i])])

\* a continuation byte
IsCont(b) == b >= 128 /\ b <= 191

\* the length of the sequence a byte leads, 0 for a byte that leads none
Width(b) ==
    IF b < 128 THEN 1
    ELSE IF b >= 194 /\ b <= 223 THEN 2
    ELSE IF b >= 224 /\ b <= 239 THEN 3
    ELSE IF b >= 240 /\ b <= 244 THEN 4
    ELSE 0

\* byte k (2 to 4) of the sequence led by the byte at i is one that may stand
\* there: the second byte excludes overlong forms, surrogates and values
\* above U+10FFFF
Good(bs, i, k) ==
    /\ i + k - 1 <= Len(bs)
    /\ IF k = 2
       THEN /\ bs[i + 1] >= (IF bs[i] = 224 THEN 160 ELSE IF bs[i] = 240 THEN 144 ELSE 128)
            /\ bs[i + 1] <= (IF bs[i] = 237 THEN 159 ELSE IF bs[i] = 244 THEN 143 ELSE 191)
       ELSE IsCont(bs[i + k - 1])

\* the bytes taken with the byte at i, which is no continuation byte: the
\* longest start of a sequence
Used(bs, i) ==
    1 + Cardinality({k \in 2..Width(bs[i]) : \A j \in 2..k : Good(bs, i, j)})

\* the scalar value of the whole sequence at i
Scalar(bs, i) ==
    CASE Width(bs[i]) = 1 -> bs[i]
      [] Width(bs[i]) = 2 -> (bs[i] - 192) * 64 + (bs[i + 1] - 128)
      [] Width(bs[i]) = 3 -> (bs[i] - 224) * 4096 + (bs[i + 1] - 128) * 64 + (bs[i + 2] - 128)
      [] OTHER -> (bs[i] - 240) * 262144 + (bs[i + 1] - 128) * 4096
                  + (bs[i + 2] - 128) * 64 + (bs[i + 3] - 128)

\* the byte at i is a continuation byte taken with a byte before it
Covered(bs, i) ==
    \E j \in Max(1, i - 3)..(i - 1) :
        /\ ~IsCont(bs[j])
        /\ \A k \in (j + 1)..(i - 1) : IsCont(bs[k])
        /\ i < j + Used(bs, j)

\* what the byte at i adds to the text: the scalar value of the sequence it
\* leads, U+FFFD for the start of a sequence that is not whole and for a
\* stray byte, nothing for a byte taken with one before it
Decoded(bs, i) ==
    IF IsCont(bs[i]) THEN (IF Covered(bs, i) THEN <<>> ELSE <<65533>>)
    ELSE IF Width(bs[i]) >= 1 /\ Used(bs, i) = Width(bs[i]) THEN <<Scalar(bs, i)>>
    ELSE <<65533>>

\* CStr::to_string_lossy
to_string_lossy(bs) == Concat([i \in 1..Len(bs) |-> Decoded(bs, i)])

\* mutant: the whole capacity is taken for text, none kept for the terminator
CopyLen_NoRoom(nbytes, cap) == [ovf |-> FALSE, val |-> Min(nbytes, cap)]

\* std::cmp::min(bytes.len(), c_arr.len() - 1): on an array of no bytes the
\* subtraction overflows (a panic with overflow checks, usize::MAX without)
CopyLen(nbytes, cap) ==
    [ovf |-> cap = 0, val |-> IF cap = 0 THEN nbytes ELSE Min(nbytes, cap - 1)]

\* the array after the bytes are copied and the terminator written; Panic
\* when the subtraction panics or the terminator index is outside the array
\* (an array of no bytes: the call returns in neither build)
Copied(bytes, c_arr, len) ==
    IF len.ovf \/ len.val >= Len(c_arr) THEN Panic
    ELSE [tag |-> "Ok",
          arr |-> SubSeq(bytes, 1, len.val) \o <<0>> \o SubSeq(c_arr, len.val + 2, Len(c_arr))]

CopiedBytes(bytes, c_arr) == Copied(bytes, c_arr, CopyLen(Len(bytes), Len(c_arr)))

copy_str_to_c_arr(rust_str, c_arr) == CopiedBytes(as_bytes(rust_str), c_arr)

\* the C indices copy_str_to_c_arr writes in a build with overflow checks
\* (checks) or without: copy_nonoverlapping writes 0..len-1 and
\* `c_arr[len] = 0` writes len when len is inside the array.  With the checks
\* the subtraction on an array of no bytes panics before either; without
\* them the copy writes its len bytes past the array and the bounds check
\* of the terminator panics.
CopyWrites(rust_str, c_arr, checks) ==
    LET len == CopyLen(Len(as_bytes(rust_str)), Len(c_arr))
    IN  IF len.ovf /\ checks THEN {}
        ELSE (0..(len.val - 1)) \cup (IF len.val < Len(c_arr) THEN {len.val} ELSE {})

\* the mass of each atom in order: zip(natms_per_type, masses_per_type)
\* flat-mapped to repeat_n(mass, num_atoms), of which the zip with atom_data
\* takes no more than `take`
MassesIter(header, take) ==
    Concat([i \in 1..Min(Len(header.natms_per_type), Len(header.masses_per_type)) |->
               [k \in 1..Capped(header.natms_per_type[i], take) |->
                   header.masses_per_type[i]]])

CAtom(atom_datum, mass) ==
    [atomic_number |-> symbol_to_atomic_number(atom_datum.symbol),
     x |-> atom_datum.x,
     y |-> atom_datum.y,
     z |-> atom_datum.z,
     atom_id |-> atom_datum.atom_id,
     mass |-> mass,
     is_fixed |-> atom_datum.is_fixed]

\* atom_data zipped with the masses (the shorter of the two decides)
Zipped(atom_data, masses_iter) ==
    [k \in 1..Min(Len(atom_data), Len(masses_iter)) |-> CAtom(atom_data[k], masses_iter[k])]

CAtoms(parsed_frame) ==
    Zipped(parsed_frame.atom_data, MassesIter(parsed_frame.header, Len(parsed_frame.atom_data)))

CFrame(atoms, header, prebox, postbox, natms, masses) ==
    [atoms |-> atoms,
     num_atoms |-> Len(atoms),
     cell |-> header.boxl,
     angles |-> header.angles,
     prebox_header |-> prebox,
     postbox_header |-> postbox,
     natm_types |-> header.natm_types,
     natms_per_type |-> natms,
     masses_per_type |-> masses]

\* array[..n_types].copy_from_slice(src), n_types within the array
CopyFromSlice(array, n_types, src) ==
    [i \in 1..Len(array) |-> IF i <= N(n_types) THEN src[i] ELSE array[i]]

\* mutant: the capacity check lets one type too many through
FitsCapacity_OffByOne(natm_types) == ~ULt(U(MAX_ATOM_TYPES + 1), natm_types)

\* the negation of `parsed_frame.header.natm_types > MAX_ATOM_TYPES`
FitsCapacity(natm_types) == ~ULt(U(MAX_ATOM_TYPES), natm_types)

\* the four header lines copied, then Box::into_raw
FilledCFrame(parsed_frame, pre1, pre2, post1, post2) ==
    IF pre1.tag = "Panic" \/ pre2.tag = "Panic" \/ post1.tag = "Panic" \/ post2.tag = "Panic"
    THEN Panic
    ELSE Boxed(CFrame(CAtoms(parsed_frame), parsed_frame.header,
                      <<pre1.arr, pre2.arr>>, <<post1.arr, post2.arr>>,
                      CopyFromSlice(ZeroCounts, parsed_frame.header.natm_types,
                                    parsed_frame.header.natms_per_type),
                      CopyFromSlice(ZeroMasses, parsed_frame.header.natm_types,
                                    parsed_frame.header.masses_per_type)))

convert_con_frame_to_c_frame(parsed_frame) ==
    IF ~FitsCapacity(parsed_frame.header.natm_types) THEN Null
    ELSE IF \/ ULt(U(MAX_ATOM_TYPES), parsed_frame.header.natm_types)
            \/ U(Len(parsed_frame.header.natms_per_type)) # parsed_frame.header.natm_types
            \/ U(Len(parsed_frame.header.masses_per_type)) # parsed_frame.header.natm_types
         THEN Panic
    ELSE FilledCFrame(parsed_frame,
                      copy_str_to_c_arr(parsed_frame.header.prebox_header[1], ZeroLine),
                      copy_str_to_c_arr(parsed_frame.header.prebox_header[2], ZeroLine),
                      copy_str_to_c_arr(parsed_frame.header.postbox_header[1], ZeroLine),
                      copy_str_to_c_arr(parsed_frame.header.postbox_header[2], ZeroLine))

\* the record read_single_frame builds: the header arrays are left zeroed
SingleCFrame(parsed_frame) ==
    Boxed(CFrame(CAtoms(parsed_frame), parsed_frame.header,
                 <<ZeroLine, ZeroLine>>, <<ZeroLine, ZeroLine>>, ZeroCounts, ZeroMasses))

\* the memory CStr::from_ptr scans from header array k (1 to 4) on: the
\* CFrame is #[repr(C)], so the arrays after it follow, then natm_types, of
\* which a count within MAX_ATOM_TYPES has its value in the first byte and
\* zero in the next
ScannedFrom(frame, k) ==
    Concat(SubSeq(<<frame.prebox_header[1], frame.prebox_header[2],
                    frame.postbox_header[1], frame.postbox_header[2]>>, k, 4))
    \o <<N(frame.natm_types), 0>>

\* the bytes before the first zero byte
UpToZero(bytes) ==
    SubSeq(bytes, 1,
           (CHOOSE i \in 1..Len(bytes) : bytes[i] = 0 /\ \A j \in 1..(i - 1) : bytes[j] # 0) - 1)

\* CStr::from_ptr(array.as_ptr()).to_string_lossy(): the scan does not stop
\* at the end of an array that holds no zero byte
CStrOf(frame, k) == to_string_lossy(UpToZero(ScannedFrom(frame, k)))

\* the symbol looked up for an atom of the plain record
SymbolOf(atom) == atomic_number_to_symbol(atom.atomic_number)

\* !type_map.contains_key(&c_atom.atomic_number), at the k-th atom
FirstSeen(atoms, k) == \A j \in 1..(k - 1) : atoms[j].atomic_number # atoms[k].atomic_number

SymbolsAt(atoms, first) == [i \in 1..Len(first) |-> SymbolOf(atoms[first[i]])]

\* symbols_ordered: the symbol of each atomic number at its first occurrence
SymbolsOrdered(atoms) ==
    SymbolsAt(atoms, SelectSeq([k \in 1..Len(atoms) |-> k], LAMBDA k : FirstSeen(atoms, k)))

\* the record pushed for an atom
AtomDatumOf(atom, sym) ==
    [symbol |-> sym,
     x |-> atom.x,
     y |-> atom.y,
     z |-> atom.z,
     is_fixed |-> atom.is_fixed,
     atom_id |-> atom.atom_id]

\* the records pushed for one symbol: every atom carrying it, in array order
Pushed(matching, sym) == [k \in 1..Len(matching) |-> AtomDatumOf(matching[k], sym)]

AtomsOfSymbol(atoms, sym) == Pushed(SelectSeq(atoms, LAMBDA a : SymbolOf(a) = sym), sym)

\* mutant: the records are emitted in array order, not bucketed by symbol
Rebucket_InPlace(atoms, symbols_ordered) ==
    [k \in 1..Len(atoms) |-> AtomDatumOf(atoms[k], SymbolOf(atoms[k]))]

\* for sym in &symbols_ordered { for atom in atoms_slice { .. } }
Rebucket(atoms, symbols_ordered) ==
    Concat([i \in 1..Len(symbols_ordered) |-> AtomsOfSymbol(atoms, symbols_ordered[i])])

\* mutant: the per-type sequences are taken at their full capacity
HeaderOfCFrame_WholeArrays(frame) ==
    FrameHeader(CStrOf(frame, 1), CStrOf(frame, 2),
                frame.cell, frame.angles,
                CStrOf(frame, 3), CStrOf(frame, 4),
                frame.natm_types, frame.natms_per_type, frame.masses_per_type)

\* the header rebuilt from the plain record: arrays cut at n_types
HeaderOfCFrame(frame) ==
    FrameHeader(CStrOf(frame, 1), CStrOf(frame, 2),
                frame.cell, frame.angles,
                CStrOf(frame, 3), CStrOf(frame, 4),
                frame.natm_types,
                SubSeq(frame.natms_per_type, 1, N(frame.natm_types)),
                SubSeq(frame.masses_per_type, 1, N(frame.natm_types)))

\* `c_frame` is Null or Boxed(a CFrame); the result None, Some(frame) or
\* Panic: [..n_types] of an array of MAX_ATOM_TYPES panics on a larger count
\* (whose four string scans, run before it, end somewhere in the record or
\* leave it: the call returns in no case)
convert_c_frame_to_con_frame(c_frame) ==
    IF c_frame.tag = "Null" THEN None
    ELSE IF ULt(U(MAX_ATOM_TYPES), c_frame.val.natm_types) THEN Panic
    ELSE Some(ConFrame(HeaderOfCFrame(c_frame.val),
                       Rebucket(c_frame.val.atoms, SymbolsOrdered(c_frame.val.atoms))))

\* writer::write_con_frame and writer::write_con_file, called by the boundary:
\* one frame serialised, and the frames serialised one after the other
write_con_frame(frame) == write_frame(frame)
write_con_file(fs) == extend(fs)

\* The files of the model.  A file is [exists, text]; File::create makes it
\* exist and empty.  The boundary writes through a BufWriter, which hands
\* its text to the file when its buffer is full and when it is dropped at
\* the return; an error of that last flush is not reported.
Created == [exists |-> TRUE, text |-> <<>>]
FileWith(text) == [exists |-> TRUE, text |-> text]

\* the capacity of a BufWriter made by BufWriter::new
DEFAULT_BUF_SIZE == 8 * 1024

\* How write_con_frame and write_con_file use the BufWriter they are given:
\* they write to it ("direct"), or through a ConFrameWriter, whose own
\* BufWriter stands before it ("wrapped": it is dropped at the return and an
\* error of its flush is lost; "flushing": it is flushed at the end and the
\* error returned).
Sinks == {"direct", "wrapped", "flushing"}

\* The numbers of bytes that can have reached the file when the writer has
\* written n bytes and not yet flushed.  The text arrives str by str, the
\* last one a line end of one byte; a buffer holds at most its capacity and
\* hands on all it holds when a str does not fit.  None has left for a text
\* within the capacity, the full buffer has left for one byte more (a chunk
\* of the capacity passes a second buffer), and beyond that the strs decide:
\* every count that leaves no more than the buffers hold (one buffer, or two
\* behind a ConFrameWriter) and at least the last line end.
Reached(n, sink) ==
    IF n <= DEFAULT_BUF_SIZE THEN {0}
    ELSE IF n = DEFAULT_BUF_SIZE + 1 THEN {DEFAULT_BUF_SIZE}
    ELSE {d \in 0..(n - 1) :
             /\ n - d <= (IF sink = "direct" THEN 1 ELSE 2) * DEFAULT_BUF_SIZE
             /\ d = 0 => sink # "direct"}

\* the number of bytes of the first j characters of s, for j in lo..hi, each
\* raised by base
RECURSIVE OffsetsFrom(_, _, _, _)
OffsetsFrom(s, lo, hi, base) ==
    IF lo > hi THEN <<>>
    ELSE IF lo = hi THEN <<base + Len(Utf8Char(s[lo]))>>
    ELSE OffsetsFrom(s, lo, (lo + hi) \div 2, base)
         \o OffsetsFrom(s, (lo + hi) \div 2 + 1, hi,
                        base + Len(as_bytes(SubSeq(s, lo, (lo + hi) \div 2))))

\* the starts of the text that end where offs, the byte offsets of its
\* characters, has a number of counts
Starts(text, offs, counts) ==
    IF counts = {0} THEN {<<>>}
    ELSE {SubSeq(text, 1, m) : m \in {k \in 1..Len(text) : offs[k] \in counts}}
         \cup (IF 0 \in counts THEN {<<>>} ELSE {})

\* the starts of the text that full buffers may have handed to the file
\* while the text was written
Flushed(text, sink) ==
    Starts(text, OffsetsFrom(text, 1, Len(text), 0), Reached(Len(as_bytes(text)), sink))

\* the file a panic in the writer leaves.  The process aborts at the
\* extern "C" boundary; a build that unwinds up to it drops the BufWriters,
\* which flush the text written so far, and a build that aborts at once
\* leaves what full buffers had handed over: nothing, when the text is still
\* in the buffers.  On a device that takes no byte (path "full") the file
\* stays empty.
Unwound(text, path) ==
    IF path = "full" THEN {Created}
    ELSE {FileWith(text)} \cup UNION {{FileWith(p) : p \in Flushed(text, sink)} : sink \in Sinks}

\* the end of a write on a device that takes no byte when no byte was handed
\* to it before: the panic aborts; otherwise the text is flushed, and the
\* flush fails, in the drop of a BufWriter (the error is lost: 0) or in the
\* flush of a "flushing" writer (-1; no text, no error)
AtEnd(w, sink) ==
    IF w.tag = "Panic" THEN [status |-> "aborted", ret |-> 0, file |-> Created]
    ELSE [status |-> "returned",
          ret |-> IF sink = "flushing" /\ w.text # <<>> THEN 0 - 1 ELSE 0,
          file |-> Created]

\* a write on a device that takes no byte: the first buffer handed to the
\* device is refused, its error ends the writer through `?` before any line
\* after it (the line that panics among them) and the call returns -1
OnFull(w, sink) ==
    {[status |-> "returned", ret |-> 0 - 1, file |-> Created] :
        d \in Reached(Len(as_bytes(w.text)), sink) \ {0}}
    \cup {AtEnd(w, sink) : d \in Reached(Len(as_bytes(w.text)), sink) \cap {0}}

\* the outcomes of a boundary write: the status returned and the file left.
\* `Ok(_) => 0, Err(_) => -1`: the writer fails when a write reaches a device
\* that takes no byte
WriteOutcome(w, path) ==
    IF path = "full" THEN UNION {OnFull(w, sink) : sink \in Sinks}
    ELSE IF w.tag = "Panic"
    THEN {[status |-> "aborted", ret |-> 0, file |-> f] : f \in Unwound(w.text, path)}
    ELSE {[status |-> "returned", ret |-> 0, file |-> FileWith(w.text)]}

\* path is "null", "bad" (File::create fails), "full" (the file is created
\* on a device that takes no byte) or "out"
WriteSingleConverted(file, rust_frame, path) ==
    IF rust_frame.tag = "Panic" THEN {[status |-> "aborted", ret |-> 0, file |-> file]}
    ELSE IF rust_frame.tag = "None" THEN {[status |-> "returned", ret |-> -1, file |-> file]}
    ELSE IF path = "bad" THEN {[status |-> "returned", ret |-> -1, file |-> file]}
    ELSE WriteOutcome(write_con_frame(rust_frame.val), path)

write_single_frame(file, frame_ptr, path) ==
    IF frame_ptr.tag = "Null" \/ path = "null"
    THEN {[status |-> "returned", ret |-> -1, file |-> file]}
    ELSE WriteSingleConverted(file, convert_c_frame_to_con_frame(frame_ptr), path)

\* mutant: the file is created before the frames are counted
WriteBatchConverted_CreateFirst(file, converted, num_frames, path) ==
    IF \E i \in 1..Len(converted) : converted[i].tag = "Panic"
    THEN {[status |-> "aborted", ret |-> 0, file |-> file]}
    ELSE IF path = "bad" THEN {[status |-> "returned", ret |-> -1, file |-> file]}
    ELSE IF Cardinality({i \in 1..Len(converted) : converted[i].tag = "Some"}) # num_frames
         THEN {[status |-> "returned", ret |-> -1, file |-> Created]}
    ELSE WriteOutcome(write_con_file([i \in 1..Len(converted) |-> converted[i].val]), path)

\* filter_map(convert).collect(), the length check, File::create, write_con_file
WriteBatchConverted(file, converted, num_frames, path) ==
    IF \E i \in 1..Len(converted) : converted[i].tag = "Panic"
    THEN {[status |-> "aborted", ret |-> 0, file |-> file]}
    ELSE IF Cardinality({i \in 1..Len(converted) : converted[i].tag = "Some"}) # num_frames
         THEN {[status |-> "returned", ret |-> -1, file |-> file]}
    ELSE IF path = "bad" THEN {[status |-> "returned", ret |-> -1, file |-> file]}
    ELSE WriteOutcome(write_con_file([i \in 1..Len(converted) |-> converted[i].val]), path)

\* the elements of the slice that a call dereferences: filter_map hands every
\* element in array order to convert_c_frame_to_con_frame, which returns None
\* for a null one and reads the CFrame behind any other; a panic ends the call
Dereferenced(frames_slice) ==
    {i \in 1..Len(frames_slice) :
        /\ frames_slice[i].tag # "Null"
        /\ \A j \in 1..(i - 1) : convert_c_frame_to_con_frame(frames_slice[j]).tag # "Panic"}

\* frames_ptr is Null or Boxed(the array of frame pointers)
write_con_file_from_c(file, frames_ptr, num_frames, path) ==
    IF frames_ptr.tag = "Null" \/ path = "null"
    THEN {[status |-> "returned", ret |-> -1, file |-> file]}
    ELSE WriteBatchConverted(file,
             [i \in 1..num_frames |-> convert_c_frame_to_con_frame(frames_ptr.val[i])],
             num_frames, path)

----------------------------------------------------------------------------
(* ffi.rs: the functions on handles.  A path is "null" (a null pointer),    *)
(* "missing" / "bad" (the file cannot be read / created), "full" (created  *)
(* on a device that takes no byte) or a usable one; a handle argument is    *)
(* "null" or "it".                                                          *)

\* con_frame_iterator_next: the pointer returned, the cursor after the call
\* and the result of the underlying next() (NoCall's when it was not called)
NextConverted(r) ==
    [ptr |-> IF r.res.tag = "Ok" THEN convert_con_frame_to_c_frame(r.res.val) ELSE Null,
     pos |-> r.pos,
     res |-> r.res]

con_frame_iterator_next(h, ls, p) ==
    IF h = "null" THEN [ptr |-> Null, pos |-> p, res |-> NoCall.res]
    ELSE NextConverted(next(ls, p))

\* match iter.forward() { Some(Ok(())) => 0, _ => -1 }; a panic of forward()
\* aborts the process at the extern "C" boundary
ForwardStatus(r) ==
    [call |-> IF r.res = Panic THEN "aborted" ELSE "returned",
     status |-> IF r.res.tag = "Ok" THEN 0 ELSE -1, pos |-> r.pos, res |-> r.res]

con_frame_iterator_forward(h, ls, p, checks) ==
    IF h = "null" THEN [call |-> "returned", status |-> -1, pos |-> p, res |-> NoCall.res]
    ELSE ForwardStatus(forward(ls, p, checks))

\* read_single_frame: a fresh iterator over the file, its first item converted
SingleConverted(r) == IF r.res.tag = "Ok" THEN SingleCFrame(r.res.val) ELSE Null

read_single_frame(path, ls) ==
    IF path \in {"null", "missing"} THEN Null ELSE SingleConverted(next(ls, 0))

\* read_con_file_iterator: the three boxes of a new handle, or none
read_con_file_iterator(path) ==
    IF path \in {"null", "missing"} THEN NoIterator
    ELSE [handle |-> "live", parser |-> "live", buffer |-> "live"]

\* mutant: the atom array of the frame is not taken back
free_con_frame_KeepAtoms(cfs, f) ==
    IF f = 0 THEN cfs ELSE [cfs EXCEPT ![f].box = "freed"]

\* free_con_frame: the CFrame box and its atom array, unless the pointer is null
free_con_frame(cfs, f) ==
    IF f = 0 THEN cfs ELSE [cfs EXCEPT ![f].box = "freed", ![f].atoms = "freed"]

\* mutant: the text buffer is released and the parser state kept
free_con_frame_iterator_BufferOnly(it, h) ==
    IF h = "null" THEN it
    ELSE [handle |-> "freed", parser |-> "live", buffer |-> "freed"]

\* free_con_frame_iterator: the handle, the parser state, then the text buffer
free_con_frame_iterator(it, h) ==
    IF h = "null" THEN it
    ELSE [handle |-> "freed", parser |-> "freed", buffer |-> "freed"]

----------------------------------------------------------------------------
(* The files read through the boundary *)

\* three blocks, the first and the last with the same label
FrameRep ==
    [counts |-> <<1, 2, 1>>,
     text |-> <<LnPre1, LnPre2, LnBox, LnAngles, LnPost1, LnPost2, T3,
                Join(<<T1, T2, T1>>, Sp), Join(<<T1p008, T12p011, T1p008>>, Sp),
                Str(<<"H">>), Marker(1),
                Join(<<T0, T0, T0, T0, T1>>, Sp),
                Str(<<"C", "u">>), Marker(2),
                Join(<<T1, T0, T0, T1, T2>>, Sp),
                Join(<<T2, T0, T0, T0, T3>>, Sp),
                Str(<<"H">>), Marker(3),
                Join(<<T3, T0, T1p5, T1, T4>>, Sp)>>]

\* a line of n bytes, the last two of them the letter U+00E9
LongText(n) == [i \in 1..(n - 2) |-> DigitChar(i % 10)] \o <<233>>

\* header text lines of 0, 255, 256 and 300 bytes: the second fits its
\* array, the third is cut inside its last letter
FrameLong ==
    [counts |-> <<1>>,
     text |-> <<<<>>, LongText(HEADER_LINE_MAX_LEN - 1), LnBox, LnAngles,
                LongText(HEADER_LINE_MAX_LEN), LongText(HEADER_LINE_MAX_LEN + 44),
                T1, T1, T1p008,
                Str(<<"H">>), Marker(1),
                Join(<<T0, T0, T0, T0, T1>>, Sp)>>]

\* n types of one atom each
Wide(n) ==
    [counts |-> [i \in 1..n |-> 1],
     text |-> <<LnPre1, LnPre2, LnBox, LnAngles, LnPost1, LnPost2, DecDigits(U(n)),
                Join([i \in 1..n |-> T1], Sp), Join([i \in 1..n |-> T1], Sp)>>
              \o Concat([i \in 1..n |->
                            <<Str(<<"H">>), Marker(i), Join(<<T0, T0, T0, T0, DecDigits(U(i))>>, Sp)>>])]

BoundaryTemplates ==
    Templates \o <<FrameRep, FrameLong, Wide(MAX_ATOM_TYPES), Wide(MAX_ATOM_TYPES + 1)>>

BoundaryFileOf(tpl) == Concat([i \in 1..Len(tpl) |-> BoundaryTemplates[tpl[i]].text])

\* a file with one line replaced, read by each of its builds
Replaced(tpl, j, b) ==
    {[tpl |-> tpl, dmg |-> [kind |-> "replace", at |-> j, with |-> b], checks |-> c] :
        c \in Builds([kind |-> "replace", at |-> j, with |-> b])}

\* whole files; FrameCuH with its counts line replaced; a file cut
\* in the coordinate lines of its second frame
BoundaryInputs ==
    {[tpl |-> t, dmg |-> NoDamage, checks |-> FALSE] : t \in {<<>>, <<4>>, <<6, 1>>, <<7>>}}
    \cup UNION {Replaced(<<2>>, 8, b) : b \in 1..Len(BadLines)}
    \cup {[tpl |-> <<6, 1>>, dmg |-> [kind |-> "trunc", at |-> Len(BoundaryFileOf(<<6, 1>>)) - 1,
                                      with |-> 0], checks |-> FALSE]}

InitBoundary ==
    /\ input \in BoundaryInputs
    /\ lines = Damaged(BoundaryFileOf(input.tpl), input.dmg)
    /\ pos = 0
    /\ ncalls = 0
    /\ last = NoCall
    /\ frames = <<>>
    /\ out = <<>>
    /\ wstate = "idle"
    /\ reread = <<>>
    /\ probe = NoProbe
    /\ iter = NoIterator
    /\ cframes = <<>>
    /\ ret = NoReturn
    /\ disk = NoFile

\* a frame of one type more than MAX_ATOM_TYPES followed by FrameX
OverflowThenFrame == <<9, 1>>

\* the files of BoundaryInputs, those at the capacity of the per-type arrays
\* (MAX_ATOM_TYPES types and one type more, alone and before another frame),
\* and FrameCuH with its masses line replaced
ReadInputs ==
    BoundaryInputs
    \cup {[tpl |-> t, dmg |-> NoDamage, checks |-> FALSE] : t \in {<<8>>, <<9>>, OverflowThenFrame}}
    \cup {[tpl |-> <<2>>, dmg |-> [kind |-> "replace", at |-> 9, with |-> b], checks |-> FALSE] :
             b \in 1..Len(BadLines)}

InitRead ==
    /\ input \in ReadInputs
    /\ lines = Damaged(BoundaryFileOf(input.tpl), input.dmg)
    /\ pos = 0
    /\ ncalls = 0
    /\ last = NoCall
    /\ frames = <<>>
    /\ out = <<>>
    /\ wstate = "idle"
    /\ reread = <<>>
    /\ probe = NoProbe
    /\ iter = NoIterator
    /\ cframes = <<>>
    /\ ret = NoReturn
    /\ disk = NoFile

\* the process runs until a panic in a boundary function aborts it
Running == ret.status = "returned"

\* what a client may pass: null, or a handle / frame it holds and has not released
HandleArgs == {"null"} \cup (IF iter.handle = "live" THEN {"it"} ELSE {})
FrameArgs == {0} \cup {i \in 1..Len(cframes) : cframes[i].box = "live"}
PtrOf(f) == IF f = 0 THEN Null ELSE Boxed(cframes[f].val)

Allocated(ptr) ==
    IF ptr.tag = "Ptr"
    THEN Append(cframes, [val |-> ptr.val, box |-> "live", atoms |-> "live"])
    ELSE cframes

Return(op, ptr) ==
    [op |-> op,
     status |-> IF ptr.tag = "Panic" THEN "aborted" ELSE "returned",
     val |-> IF ptr.tag = "Ptr" THEN Len(cframes) + 1 ELSE 0]

ReadSingleReturned(ptr) ==
    /\ ptr.tag = "Ptr" => Len(cframes) < MaxCFrames
    /\ cframes' = Allocated(ptr)
    /\ ret' = Return("read_single_frame", ptr)
    /\ UNCHANGED <<input, lines, pos, ncalls, last, frames, out, wstate, reread, probe,
                   iter, disk>>

ReadSingleFrame ==
    /\ Running
    /\ \E path \in {"null", "missing", "in"} :
          ReadSingleReturned(read_single_frame(path, lines))

ReadIteratorReturned(it) ==
    /\ iter' = IF it.handle = "live" THEN it ELSE iter
    /\ ret' = [op |-> "read_con_file_iterator", status |-> "returned",
               val |-> IF it.handle = "live" THEN 1 ELSE 0]
    /\ UNCHANGED <<input, lines, pos, ncalls, last, frames, out, wstate, reread, probe,
                   cframes, disk>>

\* one iterator is opened on the file
ReadConFileIterator ==
    /\ Running
    /\ iter.handle = "none"
    /\ \E path \in {"null", "missing", "in"} :
          ReadIteratorReturned(read_con_file_iterator(path))

NextReturned(o) ==
    /\ o.ptr.tag = "Ptr" => Len(cframes) < MaxCFrames
    /\ pos' = o.pos
    /\ cframes' = Allocated(o.ptr)
    /\ ret' = Return("con_frame_iterator_next", o.ptr)
    /\ UNCHANGED <<input, lines, ncalls, last, frames, out, wstate, reread, probe, iter, disk>>

IterNext ==
    /\ Running
    /\ \E h \in HandleArgs : NextReturned(con_frame_iterator_next(h, lines, pos))

ForwardReturned(o) ==
    /\ pos' = o.pos
    /\ ret' = [op |-> "con_frame_iterator_forward", status |-> o.call, val |-> o.status]
    /\ UNCHANGED <<input, lines, ncalls, last, frames, out, wstate, reread, probe, iter,
                   cframes, disk>>

IterForward ==
    /\ Running
    /\ \E h \in HandleArgs :
          ForwardReturned(con_frame_iterator_forward(h, lines, pos, input.checks))

FreeFrame ==
    /\ Running
    /\ \E f \in FrameArgs :
          /\ cframes' = free_con_frame(cframes, f)
          /\ ret' = [op |-> "free_con_frame", status |-> "returned", val |-> 0]
    /\ UNCHANGED <<input, lines, pos, ncalls, last, frames, out, wstate, reread, probe,
                   iter, disk>>

FreeIterator ==
    /\ Running
    /\ \E h \in HandleArgs :
          /\ iter' = free_con_frame_iterator(iter, h)
          /\ ret' = [op |-> "free_con_frame_iterator", status |-> "returned", val |-> 0]
    /\ UNCHANGED <<input, lines, pos, ncalls, last, frames, out, wstate, reread, probe,
                   cframes, disk>>

Wrote(op, o) ==
    /\ disk' = o.file
    /\ ret' = [op |-> op, status |-> o.status, val |-> o.ret]
    /\ UNCHANGED <<input, lines, pos, ncalls, last, frames, out, wstate, reread, probe,
                   iter, cframes>>

\* one output file is written
WriteSingleFrame ==
    /\ Running
    /\ disk = NoFile
    /\ \E f \in FrameArgs, path \in {"null", "bad", "full", "out"} :
          \E o \in write_single_frame(disk, PtrOf(f), path) : Wrote("write_single_frame", o)

\* the array of frame pointers handed over, or a null pointer in its place
PtrsOf(arr) == [i \in 1..Len(arr) |-> PtrOf(arr[i])]
BatchArgs ==
    {[frames_ptr |-> Boxed(PtrsOf(arr)), num_frames |-> Len(arr)] :
        arr \in SeqsUpTo(FrameArgs, MaxBatch)}
    \cup {[frames_ptr |-> Null, num_frames |-> 0]}

WriteConFileFromC ==
    /\ Running
    /\ disk = NoFile
    /\ \E b \in BatchArgs, path \in {"null", "bad", "full", "out"} :
          \E o \in write_con_file_from_c(disk, b.frames_ptr, b.num_frames, path) :
              Wrote("write_con_file_from_c", o)

NextBoundary ==
    \/ ReadSingleFrame
    \/ ReadConFileIterator
    \/ IterNext
    \/ IterForward
    \/ FreeFrame
    \/ FreeIterator
    \/ WriteSingleFrame
    \/ WriteConFileFromC

SpecBoundary == InitBoundary /\ [][NextBoundary]_vars

\* the read side of the boundary, on the files of ReadInputs
NextRead ==
    \/ ReadSingleFrame
    \/ ReadConFileIterator
    \/ IterNext
    \/ IterForward
    \/ FreeFrame
    \/ FreeIterator

SpecRead == InitRead /\ [][NextRead]_vars
----------------------------------------------------------------------------
(* The capacities of the plain record                                       *)

\* the call that returned last handed a new CFrame to the client
ReturnedFrame(op) == ret.op = op /\ ret.status = "returned" /\ ret.val > 0

\* C11: on both read paths a decoded frame of more than MAX_ATOM_TYPES types
\* gives a null result, no CFrame the client holds has natm_types above
\* MAX_ATOM_TYPES, the per-type arrays keep MAX_ATOM_TYPES entries, and a
\* frame of exactly MAX_ATOM_TYPES types is converted.
C11_OverflowSafety ==
    /\ \A i \in 1..Len(cframes) :
          /\ ~ULt(U(MAX_ATOM_TYPES), cframes[i].val.natm_types)
          /\ Len(cframes[i].val.natms_per_type) = MAX_ATOM_TYPES
          /\ Len(cframes[i].val.masses_per_type) = MAX_ATOM_TYPES
    /\ input.tpl = <<9>> =>
          /\ read_single_frame("in", lines).tag = "Null"
          /\ con_frame_iterator_next("it", lines, 0).ptr.tag = "Null"
    /\ input.tpl = <<8>> =>
          /\ read_single_frame("in", lines).tag = "Ptr"
          /\ con_frame_iterator_next("it", lines, 0).ptr.tag = "Ptr"

\* the four free-text lines of a header and the arrays they are copied to
HeaderTextLines == <<1, 2, 5, 6>>
HeaderTextArrays(frame) ==
    <<frame.prebox_header[1], frame.prebox_header[2],
      frame.postbox_header[1], frame.postbox_header[2]>>

\* C16: each free-text header line of len bytes is copied with truncation
\* and forced termination: the array keeps HEADER_LINE_MAX_LEN entries, its
\* first min(len, 255) entries are the leading bytes of the line, the entry
\* at C index min(len, 255) is the zero byte, and the call writes at no
\* index outside 0..255.
C16_HeaderLineCopy ==
    /\ ReturnedFrame("con_frame_iterator_next") =>
          \A k \in 1..4 :
              LET h == as_bytes(lines[HeaderTextLines[k]])
                  arr == HeaderTextArrays(cframes[ret.val].val)[k]
                  n == IF Len(h) < 255 THEN Len(h) ELSE 255
              IN  /\ Len(arr) = 256
                  /\ \A i \in 1..n : arr[i] = h[i]
                  /\ arr[n + 1] = 0
    /\ \A k \in 1..4 :
          Len(lines) >= 6 =>
              /\ copy_str_to_c_arr(lines[HeaderTextLines[k]], ZeroLine).tag = "Ok"
              /\ \A checks \in BOOLEAN :
                    \A i \in CopyWrites(lines[HeaderTextLines[k]], ZeroLine, checks) :
                        i >= 0 /\ i < 256

\* the 300-byte line of FrameLong was cut at 255 bytes and terminated, the
\* 256-byte line was cut after the first byte of its last letter
C16_Witness ==
    /\ input.tpl = <<7>>
    /\ ReturnedFrame("con_frame_iterator_next")
    /\ Len(as_bytes(lines[6])) = 300
    /\ Len(as_bytes(lines[5])) = 256
    /\ Len(as_bytes(lines[2])) = 255
    /\ Len(lines[2]) = 254
    /\ Len(lines[1]) = 0
    /\ cframes[ret.val].val.postbox_header[2][255] = lines[6][255]
    /\ cframes[ret.val].val.postbox_header[2][256] = 0
    /\ cframes[ret.val].val.postbox_header[1][255] = as_bytes(lines[5])[255]
    /\ cframes[ret.val].val.postbox_header[1][255] > 127
    /\ cframes[ret.val].val.postbox_header[1][256] = 0
    /\ cframes[ret.val].val.prebox_header[1][1] = 0

----------------------------------------------------------------------------
(* Ownership across the boundary                                            *)

\* the frame or iterator memory that a step takes back
FrameReleased(i) ==
    \/ cframes[i].box = "live" /\ cframes'[i].box # "live"
    \/ cframes[i].atoms = "live" /\ cframes'[i].atoms # "live"
IteratorReleased ==
    \/ iter.handle = "live" /\ iter'.handle # "live"
    \/ iter.parser = "live" /\ iter'.parser # "live"
    \/ iter.buffer = "live" /\ iter'.buffer # "live"

\* the frames the client holds are kept as they were handed over
FramesKept ==
    /\ Len(cframes') >= Len(cframes)
    /\ \A i \in 1..Len(cframes) : cframes'[i].val = cframes[i].val

\* C12: the text buffer of an iterator is live whenever its parser state is;
\* parser state and buffer are released only by free_con_frame_iterator, both
\* in the same call; that call leaves every CFrame already handed out as it
\* was, live and with its contents.
C12_BufferOutlivesParser ==
    /\ [](iter.parser = "live" => iter.buffer = "live")
    /\ [][/\ IteratorReleased =>
                /\ ret'.op = "free_con_frame_iterator"
                /\ iter'.parser = "freed"
                /\ iter'.buffer = "freed"
          /\ ret'.op = "free_con_frame_iterator" => cframes' = cframes]_vars

\* the iterator is gone and the frame it returned is still held
C12_Witness ==
    /\ ret.op = "free_con_frame_iterator"
    /\ iter.handle = "freed"
    /\ iter.parser = "freed"
    /\ iter.buffer = "freed"
    /\ Len(cframes) = 1
    /\ cframes[1].box = "live"
    /\ cframes[1].atoms = "live"
    /\ cframes[1].val.natm_types # U(0)
    /\ cframes[1].val.natms_per_type[1] # U(0)

\* C13: a CFrame and its atom array are released only by free_con_frame,
\* both in one call and one frame per call; an iterator only by
\* free_con_frame_iterator; no other call releases anything or changes a
\* frame it is given; a release function given a null pointer changes nothing.
C13_ExplicitRelease ==
    /\ [](/\ \A i \in 1..Len(cframes) : cframes[i].box = "live" <=> cframes[i].atoms = "live"
          /\ free_con_frame(cframes, 0) = cframes
          /\ free_con_frame_iterator(iter, "null") = iter)
    /\ [][/\ FramesKept
          /\ \A i \in 1..Len(cframes) :
                FrameReleased(i) =>
                    /\ ret'.op = "free_con_frame"
                    /\ cframes'[i].box = "freed"
                    /\ cframes'[i].atoms = "freed"
                    /\ \A j \in 1..Len(cframes) : j # i => cframes'[j] = cframes[j]
          /\ IteratorReleased => ret'.op = "free_con_frame_iterator"
          /\ ret'.op \notin {"free_con_frame", "free_con_frame_iterator"} =>
                /\ \A i \in 1..Len(cframes) : cframes'[i] = cframes[i]
                /\ iter'.handle = iter.handle \/ iter.handle = "none"]_vars

\* a frame was released by free_con_frame while the iterator stays open
C13_Witness ==
    /\ ret.op = "free_con_frame"
    /\ Len(cframes) = 1
    /\ cframes[1].box = "freed"
    /\ cframes[1].atoms = "freed"
    /\ iter.handle = "live"
    /\ iter.buffer = "live"
    /\ disk.exists

----------------------------------------------------------------------------
(* Writing through the boundary                                             *)

\* the positions where the frames of the file start
FrameStarts == {0, forward(lines, 0, input.checks).pos}

\* the CFrames a client can get from the file: by con_frame_iterator_next at
\* a frame start, or by read_single_frame
ReadablePtrs ==
    {ptr \in {con_frame_iterator_next("it", lines, p).ptr : p \in FrameStarts}
               \cup {read_single_frame("in", lines)} : ptr.tag = "Ptr"}

\* a file that exists before the call, with one line of text
ExistingFile == FileWith(<<Str(<<"x">>)>>)

\* the text of the frames of an array, each converted and written, in order
BatchText(arr) ==
    Concat([i \in 1..Len(arr) |->
               write_con_frame(convert_c_frame_to_con_frame(arr[i]).val).text])

\* C14: write_con_file_from_c on an array with a null element returns -1 and
\* leaves the file as it was (not created, not truncated, not written); when
\* it returns 0 no element was null and the file holds the frames of the
\* array, converted and written in array order.  The function is taken on
\* every array of at most MaxBatch pointers, null or readable from the file,
\* in each of its outcomes; the calls of the behaviour are held to the same.
C14_BatchAllOrNothing ==
    /\ ret.op = "none" =>
          \A arr \in SeqsUpTo(ReadablePtrs \cup {Null}, MaxBatch),
             path \in {"bad", "out"}, file \in {NoFile, ExistingFile} :
              \A o \in write_con_file_from_c(file, Boxed(arr), Len(arr), path) :
                  /\ (\E i \in 1..Len(arr) : arr[i].tag = "Null") =>
                        o.status = "returned" /\ o.ret = -1 /\ o.file = file
                  /\ (o.status = "returned" /\ o.ret = 0) =>
                        /\ \A i \in 1..Len(arr) : arr[i].tag = "Ptr"
                        /\ o.file = FileWith(BatchText(arr))
    /\ (ret.op = "write_con_file_from_c" /\ ret.status = "returned") =>
          /\ ret.val \in {0, -1}
          /\ ret.val = -1 => disk = NoFile
          /\ ret.val = 0 =>
                \E arr \in SeqsUpTo({PtrOf(f) : f \in FrameArgs \ {0}}, MaxBatch) :
                    disk = FileWith(BatchText(arr))

----------------------------------------------------------------------------
(* From the plain record back to an owned frame                             *)

\* the place of the atom with identifier `id` in the atom array
PlaceOf(atoms, id) == CHOOSE k \in 1..Len(atoms) : atoms[k].atom_id = id
\* the place where the symbol first appears in the atom array
FirstPlaceOf(atoms, sym) ==
    CHOOSE k \in 1..Len(atoms) :
        /\ SymbolOf(atoms[k]) = sym
        /\ \A j \in 1..(k - 1) : SymbolOf(atoms[j]) # sym
DistinctIds(atoms) ==
    \A j, k \in 1..Len(atoms) : j # k => atoms[j].atom_id # atoms[k].atom_id

\* the records of `frame` are those of `atoms`, by label in first-seen label
\* order and in array order within a label
RebucketedFrom(frame, atoms) ==
    /\ Len(frame.atom_data) = Len(atoms)
    /\ \A k \in 1..Len(atoms) :
          \E m \in 1..Len(atoms) : frame.atom_data[m] = AtomDatumOf(atoms[k], SymbolOf(atoms[k]))
    /\ \A a, b \in 1..Len(atoms) :
          a < b =>
              IF frame.atom_data[a].symbol = frame.atom_data[b].symbol
              THEN PlaceOf(atoms, frame.atom_data[a].atom_id)
                       < PlaceOf(atoms, frame.atom_data[b].atom_id)
              ELSE FirstPlaceOf(atoms, frame.atom_data[a].symbol)
                       < FirstPlaceOf(atoms, frame.atom_data[b].symbol)

\* the grouping the encoder relies on: the i-th block of natms_per_type[i]
\* records lies inside atom_data and carries a single label
GroupedByType(frame) ==
    LET natms == Small(frame.header.natms_per_type)
    IN  \A i \in 1..Len(natms) :
            \A k \in 1..natms[i] :
                /\ BlockOffset(natms, i) + k <= Len(frame.atom_data)
                /\ frame.atom_data[BlockOffset(natms, i) + k].symbol
                       = frame.atom_data[BlockOffset(natms, i) + 1].symbol

\* C15: the owned frame built from a CFrame read through
\* con_frame_iterator_next has its atoms re-bucketed by label in first-seen
\* label order, input order kept within a label, and satisfies the grouping
\* the encoder relies on.
C15_RebucketGroups ==
    \A p \in FrameStarts :
        LET c == con_frame_iterator_next("it", lines, p).ptr
            r == convert_c_frame_to_con_frame(c)
        IN  (c.tag = "Ptr" /\ DistinctIds(c.val.atoms)) =>
                /\ r.tag = "Some"
                /\ RebucketedFrom(r.val, c.val.atoms)
                /\ GroupedByType(r.val)

\* C18: a decoded frame of at most MAX_ATOM_TYPES types and header lines of
\* at most 255 bytes, converted to a CFrame by con_frame_iterator_next and
\* back by the conversion of the write functions, is the frame it was:
\* header fields, atom order, labels, coordinates, fixed flags, atom ids.
C18_BoundaryRoundTrip ==
    \A p \in FrameStarts :
        LET d == next(lines, p)
        IN  (/\ d.res.tag = "Ok"
             /\ ~ULt(U(MAX_ATOM_TYPES), d.res.val.header.natm_types)
             /\ \A k \in 1..2 :
                   /\ Len(as_bytes(d.res.val.header.prebox_header[k])) <= 255
                   /\ Len(as_bytes(d.res.val.header.postbox_header[k])) <= 255) =>
                /\ con_frame_iterator_next("it", lines, p).ptr.tag = "Ptr"
                /\ convert_c_frame_to_con_frame(con_frame_iterator_next("it", lines, p).ptr)
                       = Some(d.res.val)

----------------------------------------------------------------------------
(* The sentinels of the iterator functions                                  *)

\* C17: con_frame_iterator_forward returns 0 exactly when forward() returns
\* Some(Ok) and -1 otherwise; con_frame_iterator_next returns a CFrame exactly
\* when next() returns Some(Ok(frame)) with at most 64 types and null
\* otherwise; with a null handle both return the sentinel and the cursor
\* stays.  Held for the two functions at every reachable cursor, and for the
\* calls of the behaviour.
C17_SentinelCollapse ==
    /\ [](/\ con_frame_iterator_forward("it", lines, pos, input.checks).call = "returned"
          /\ con_frame_iterator_forward("it", lines, pos, input.checks).status
                = (IF forward(lines, pos, input.checks).res.tag = "Ok" THEN 0 ELSE -1)
          /\ con_frame_iterator_forward("it", lines, pos, input.checks).pos
                = forward(lines, pos, input.checks).pos
          /\ con_frame_iterator_next("it", lines, pos).ptr.tag
                = (IF /\ next(lines, pos).res.tag = "Ok"
                      /\ ~ULt(U(64), next(lines, pos).res.val.header.natm_types)
                   THEN "Ptr" ELSE "Null")
          /\ con_frame_iterator_next("it", lines, pos).pos = next(lines, pos).pos
          /\ con_frame_iterator_forward("null", lines, pos, input.checks).call = "returned"
          /\ con_frame_iterator_forward("null", lines, pos, input.checks).status = -1
          /\ con_frame_iterator_forward("null", lines, pos, input.checks).pos = pos
          /\ con_frame_iterator_next("null", lines, pos).ptr = Null
          /\ con_frame_iterator_next("null", lines, pos).pos = pos)
    /\ [][/\ ret'.op = "con_frame_iterator_forward" =>
                /\ ret'.status = "returned"
                /\ ret'.val \in {0, -1}
                /\ ret'.val = 0 =>
                      /\ forward(lines, pos, input.checks).res.tag = "Ok"
                      /\ pos' = forward(lines, pos, input.checks).pos
                /\ pos' # pos => pos' = forward(lines, pos, input.checks).pos
          /\ ret'.op = "con_frame_iterator_next" =>
                /\ ret'.val > 0 =>
                      /\ next(lines, pos).res.tag = "Ok"
                      /\ pos' = next(lines, pos).pos
                      /\ ~ULt(U(64), cframes'[ret'.val].val.natm_types)
                /\ pos' # pos => pos' = next(lines, pos).pos
          /\ ret'.op \notin {"con_frame_iterator_forward", "con_frame_iterator_next"} =>
                pos' = pos]_vars

----------------------------------------------------------------------------
(* The shape of a header                                                    *)

\* the two per-type sequences have length natm_types
PerTypeLengths(header) ==
    /\ U(Len(header.natms_per_type)) = header.natm_types
    /\ U(Len(header.masses_per_type)) = header.natm_types

\* the type the tokens of a per-type line are parsed as
PerTypeTarget(role) == IF role = "counts" THEN "usize" ELSE "f64"

\* every token of the line parses as the type
AllTokensParse(line, ty) ==
    \A i \in 1..Len(split_whitespace(line)) : Parse(ty, split_whitespace(line)[i]).tag = "Ok"

\* the first frame of the file has its counts or masses line replaced by a
\* line whose token count is not the type count
PerTypeLineMiscounted ==
    /\ input.dmg.kind = "replace"
    /\ RolesOfFile(input.tpl)[input.dmg.at] \in {"counts", "masses"}
    /\ BadTokenCount[input.dmg.with] # Len(Templates[input.tpl[1]].counts)

\* a header returned by parse_frame_header ends 9 lines after its start, and
\* its per-type sequences, like those of the frame decoded at the cursor and
\* of the frames converted back from the plain records the client holds,
\* have length natm_types
HeadersWellShaped ==
    /\ parse_frame_header(lines, pos).res.tag = "Ok" =>
          /\ parse_frame_header(lines, pos).pos = pos + 9
          /\ PerTypeLengths(parse_frame_header(lines, pos).res.val)
    /\ next(lines, pos).res.tag = "Ok" => PerTypeLengths(next(lines, pos).res.val.header)
    /\ \A i \in 1..Len(cframes) :
          convert_c_frame_to_con_frame(Boxed(cframes[i].val)).tag = "Some" =>
              PerTypeLengths(convert_c_frame_to_con_frame(Boxed(cframes[i].val)).val.header)

\* C19 as claimed: with a well-shaped header on success, a per-type line
\* whose token count differs from the type count gives
\* InvalidVectorLength{expected: natm_types, found: count}.
C19_HeaderShape ==
    /\ HeadersWellShaped
    /\ PerTypeLineMiscounted =>
          parse_frame_header(lines, 0).res
              = Err(InvalidVectorLength(U(Len(Templates[input.tpl[1]].counts)),
                                        U(BadTokenCount[input.dmg.with])))

\* C19: the same, for a per-type line whose tokens all parse as the type of
\* the line (counts as usize, masses as f64); the error is also what next()
\* returns for the frame.
C19_HeaderShapeParsedTokens ==
    /\ HeadersWellShaped
    /\ (/\ PerTypeLineMiscounted
        /\ AllTokensParse(lines[input.dmg.at],
                          PerTypeTarget(RolesOfFile(input.tpl)[input.dmg.at]))) =>
          /\ parse_frame_header(lines, 0).res
                = Err(InvalidVectorLength(U(Len(Templates[input.tpl[1]].counts)),
                                          U(BadTokenCount[input.dmg.with])))
          /\ next(lines, 0).res = parse_frame_header(lines, 0).res

\* the masses line of a two-type frame was replaced by six numbers:
\* con_frame_iterator_next returned null with the cursor after that line
C19_Witness ==
    /\ input.dmg.kind = "replace"
    /\ RolesOfFile(input.tpl)[input.dmg.at] = "masses"
    /\ input.dmg.with = 4
    /\ Len(Templates[input.tpl[1]].counts) = 2
    /\ ret.op = "con_frame_iterator_next"
    /\ ret.val = 0
    /\ iter.handle = "live"
    /\ pos = 9
    /\ next(lines, 0).res = Err(InvalidVectorLength(U(2), U(6)))

----------------------------------------------------------------------------
(* Parse failure before arity in parse_line_of_n                            *)

\* every token of the probed line parses as the probed type
AllProbedParse == \A i \in 1..Len(probe.toks) : Parse(probe.ty, probe.toks[i]).tag = "Ok"

\* C21: in parse_line_of_n an unparseable token gives InvalidNumberFormat
\* whatever the number of tokens; InvalidVectorLength{expected: n, found: m}
\* is returned exactly when all m tokens parse and m # n, m the actual token
\* count; so no line gets both errors.
C21_ParseBeforeArity ==
    probe.ty # "none" =>
        LET m == Len(split_whitespace(probe.line))
        IN  /\ m = Len(probe.toks)
            /\ ~AllProbedParse =>
                  /\ probe.res.tag = "Err"
                  /\ probe.res.err.kind = "InvalidNumberFormat"
            /\ (probe.res.tag = "Err" /\ probe.res.err.kind = "InvalidVectorLength") <=>
                  (AllProbedParse /\ m # probe.n)
            /\ (AllProbedParse /\ m # probe.n) =>
                  probe.res = Err(InvalidVectorLength(U(probe.n), U(m)))

\* a padded line of three tokens, the first unparseable, asked for two values
C21_Witness ==
    /\ probe.ty = "f64"
    /\ probe.toks = <<Tabc, T1, T2p5>>
    /\ probe.line = Padded(probe.toks)
    /\ probe.n = 2
    /\ probe.res = Err(InvalidNumberFormat(FloatErrorInvalid))

----------------------------------------------------------------------------
(* Lines are consumed destructively                                         *)

NumericRoles == {"box", "angles", "ntypes", "counts", "masses", "coord"}

\* how many values the decoder asks of a numeric line, by its role in a
\* frame with the per-type counts `counts`
RoleArity(role, counts) ==
    CASE role \in {"box", "angles"} -> 3
      [] role = "ntypes" -> 1
      [] role \in {"counts", "masses"} -> Len(counts)
      [] role = "coord" -> CoordArity

RoleType(role) == IF role \in {"ntypes", "counts"} THEN "usize" ELSE "f64"

\* what the line decoder makes of the replaced line, asked as its role asks
ReplacedLineParse ==
    parse_line_of_n(lines[input.dmg.at],
                    U(RoleArity(RolesOfFile(input.tpl)[input.dmg.at],
                                Templates[input.tpl[1]].counts)),
                    RoleType(RolesOfFile(input.tpl)[input.dmg.at]))

\* one line of the first frame was replaced by a line malformed for its role
ReplacedLineMalformed ==
    /\ input.dmg.kind = "replace"
    /\ RolesOfFile(input.tpl)[input.dmg.at] \in NumericRoles
    /\ ReplacedLineParse.tag = "Err"

ExhaustionErrors == {Err(IncompleteHeader), Err(IncompleteFrame)}

\* the state after a call: a decode that failed at malformed line j stands
\* after line j, one that failed by exhaustion stands at the end
CursorAfterFailure ==
    /\ (ReplacedLineMalformed /\ last.op = "next" /\ last.from = 0) =>
          /\ last.res = ReplacedLineParse
          /\ pos = input.dmg.at
          /\ input.dmg.at <= HeaderLines =>
                parse_frame_header(lines, 0) = [res |-> ReplacedLineParse, pos |-> input.dmg.at]
    /\ (last.op = "next" /\ last.res.tag = "Err") =>
          IF last.res \in ExhaustionErrors THEN pos = Len(lines)
          ELSE /\ pos \in (last.from + 1)..Len(lines)
               /\ next(SubSeq(lines, 1, pos), last.from).res = last.res
               /\ next(SubSeq(lines, 1, pos - 1), last.from).res \in ExhaustionErrors \cup {None}
    /\ (last.op # "none" /\ HeaderAtLast.res.tag = "Err") =>
          IF HeaderAtLast.res \in ExhaustionErrors THEN HeaderAtLast.pos = Len(lines)
          ELSE /\ HeaderAtLast.pos \in (last.from + 1)..(last.from + HeaderLines)
               /\ parse_frame_header(SubSeq(lines, 1, HeaderAtLast.pos - 1), last.from).res
                     = Err(IncompleteHeader)

\* C22: lines are consumed with no rollback.  When parse_frame_header or
\* next() fails at malformed line j of the frame the cursor stands right
\* after line j: the j lines are consumed, no later line is; when it fails by
\* exhaustion the cursor is at the end; and the call that follows starts
\* where the failed one stopped, not at the next frame.
C22_NoRollback == [](CursorAfterFailure) /\ [][last'.from = pos]_vars

\* the second next() of a two-frame file whose first frame has a malformed
\* coordinate line: it started right after that line
C22_Witness ==
    /\ ReplacedLineMalformed
    /\ RolesOfFile(input.tpl)[input.dmg.at] = "coord"
    /\ NumFrames = 2
    /\ ncalls = 2
    /\ last.op = "next"
    /\ last.from = input.dmg.at
    /\ last.from < FrameStart(input.tpl, 2)
    /\ last.res.tag = "Err"

----------------------------------------------------------------------------
(* After a failure by exhaustion                                            *)

\* the last call failed because the lines ran out
FailedByExhaustion == last.res \in ExhaustionErrors

\* C23 as claimed: once a call has returned IncompleteFrame or
\* IncompleteHeader, a later forward() on the iterator returns an error
\* item; stated of the forward() that follows the failed call.
C23_ForwardKeepsFailing ==
    [][(FailedByExhaustion /\ last'.op = "forward") => last'.res.tag = "Err"]_vars

\* C23: once a call has returned IncompleteFrame or IncompleteHeader the
\* cursor is at the end of the lines and stays there, and every later call,
\* forward() or next(), returns None: never Some(Ok), never a frame, and no
\* further error item either.
C23_ExhaustedAfterIncomplete ==
    [](FailedByExhaustion =>
          [](/\ pos = Len(lines)
             /\ last.res \in ExhaustionErrors \cup {None}))
    /\ [][FailedByExhaustion => (last'.res = None /\ last'.from = Len(lines))]_vars

\* forward() called after the only frame of the file, cut short, had failed
C23_Witness ==
    /\ input.dmg.kind = "trunc"
    /\ NumFrames = 1
    /\ ncalls = 2
    /\ last.op = "forward"
    /\ last.from = Len(lines)
    /\ last.res = None

----------------------------------------------------------------------------
(* Validation and conversion in write_con_file_from_c                       *)

\* C24: in write_con_file_from_c every element is checked to be non-null
\* before any element is converted: in a call on an array with a null element
\* no CFrame of the array is dereferenced or converted.  The function is
\* taken on every array of at most MaxBatch pointers the client holds or null.
C24_ValidateBeforeConvert ==
    \A arr \in SeqsUpTo(FrameArgs, MaxBatch) :
        (\E i \in 1..Len(arr) : PtrOf(arr[i]).tag = "Null") =>
            Dereferenced(PtrsOf(arr)) = {}

----------------------------------------------------------------------------
(* Termination and progress of the iterator                                 *)

\* a call was made and it returned Some: Some(Ok) or Some(Err)
ReturnedSome == last.op # "none" /\ last.res \notin {None, Panic}
\* a call was made and it returned None
ReturnedNone == last.op # "none" /\ last.res = None

\* the cursor stays within the L lines; as long as the calls return Some
\* there are no more calls than lines consumed
CallsWithinLines ==
    /\ pos \in 0..Len(lines)
    /\ ReturnedSome => ncalls <= pos

\* one call, next() or forward(): the cursor does not move back, a call that
\* returns Some consumes a line, a call after a None returns None
CallProgress ==
    /\ pos' >= pos
    /\ last'.res # None => pos' > pos
    /\ ReturnedNone => (last'.res = None /\ pos' = pos)

\* C25: for an input of L lines and any sequence of next() and forward()
\* calls on one iterator no call moves the cursor backwards, every call that
\* returns Some (Ok or Err) consumes at least one line, so at most L calls
\* return Some, and once a call has returned None every later call of
\* either kind returns None.
C25_Progress == [](CallsWithinLines) /\ [][CallProgress]_vars

\* a file of one line: the first call returned Some(Err), the second and the
\* third returned None
C25_Witness ==
    /\ Len(lines) = 1
    /\ ncalls = 3
    /\ pos = 1
    /\ last.op = "next"
    /\ last.res = None

----------------------------------------------------------------------------
(* The encoder on every frame of the decoder                                *)

\* the line of frame text `ls` that holds the label of type block t
LabelLine(ls, natms, t) == ls[BlockStart(0, natms, t) + 1]

\* C26: write_frame is total on decoder output.  For every frame returned by
\* the decoder, also one without types or with a type without atoms,
\* write_frame completes without indexing outside atom_data, and for each
\* type block it writes the label that was read for that type.
C26_EncoderTotal ==
    wstate # "idle" =>
        \A i \in 1..Len(frames) :
            /\ write_frame(frames[i]).tag = "Ok"
            /\ WellFormedInput =>
                  \A t \in 1..N(frames[i].header.natm_types) :
                      LabelLine(str_lines(write_frame(frames[i]).text),
                                Small(frames[i].header.natms_per_type), t)
                          = trim(LabelLine(Templates[input.tpl[i]].text,
                                           Small(frames[i].header.natms_per_type), t))

----------------------------------------------------------------------------
(* convert_c_frame_to_con_frame on records built by the client: a CFrame is *)
(* a plain structure, and the write functions take any the client fills in. *)

\* the most atoms in a record built by the client
MaxAtoms == 3

\* atomic numbers the client uses: hydrogen and two numbers without an element
ClientNumbers == {1, 0, 200}

\* a whole number as an f64
F64OfNat(n) == F64OfDecimal(FALSE, DecimalOf(Digits(n), Len(Digits(n))))

\* the k-th atom of a client's array: its identifier and abscissa are k
ClientAtom(number, k) ==
    [atomic_number |-> number,
     x |-> F64OfNat(k),
     y |-> PositiveZero,
     z |-> PositiveZero,
     atom_id |-> U(k),
     mass |-> F64OfNat(1),
     is_fixed |-> FALSE]

ClientAtoms(numbers) == [k \in 1..Len(numbers) |-> ClientAtom(numbers[k], k)]

\* the per-type counts the client writes: one type holding every atom, or
\* two types of one atom each whatever the number of atoms
ClientCounts(numbers) == {<<U(Len(numbers))>>, <<U(1), U(1)>>}

\* a header array filled with one letter and no zero byte, and one that
\* holds a text with its zero byte
Unterminated(letter) == [i \in 1..HEADER_LINE_MAX_LEN |-> letter]
Terminated(bytes) == bytes \o [i \in 1..(HEADER_LINE_MAX_LEN - Len(bytes)) |-> 0]

\* the header arrays the client fills in: all zero; the first without a zero
\* byte before a text; the last without a zero byte; bytes that are no UTF-8
ClientHeaders ==
    {<<ZeroLine, ZeroLine, ZeroLine, ZeroLine>>,
     <<Unterminated(CodeOf("a")), Terminated(Str(<<"b", "c">>)), ZeroLine, ZeroLine>>,
     <<ZeroLine, ZeroLine, ZeroLine, Unterminated(CodeOf("d"))>>,
     <<Terminated(<<255, CodeOf("A")>>), ZeroLine, ZeroLine, ZeroLine>>}

ClientCFrame(numbers, counts, texts) ==
    CFrame(ClientAtoms(numbers),
           [boxl |-> <<F64OfNat(10), F64OfNat(10), F64OfNat(10)>>,
            angles |-> <<F64OfNat(90), F64OfNat(90), F64OfNat(90)>>,
            natm_types |-> U(Len(counts))],
           <<texts[1], texts[2]>>, <<texts[3], texts[4]>>,
           CopyFromSlice(ZeroCounts, U(Len(counts)), counts),
           CopyFromSlice(ZeroMasses, U(Len(counts)), [i \in 1..Len(counts) |-> F64OfNat(1)]))

\* a record whose natm_types the client set above the capacity of its arrays
ClientOverflowing(natm_types) ==
    [ClientCFrame(<<1>>, <<U(1)>>, <<ZeroLine, ZeroLine, ZeroLine, ZeroLine>>)
        EXCEPT !.natm_types = natm_types]

ClientCFrames ==
    UNION {{ClientCFrame(numbers, counts, texts) :
                counts \in ClientCounts(numbers), texts \in ClientHeaders} :
              numbers \in SeqsUpTo(ClientNumbers, MaxAtoms)}
    \cup {ClientOverflowing(U(MAX_ATOM_TYPES + 1)), ClientOverflowing(USIZE_MAX)}

InitConvert ==
    /\ input = [tpl |-> <<>>, dmg |-> NoDamage, checks |-> FALSE]
    /\ lines = <<>>
    /\ pos = 0
    /\ ncalls = 0
    /\ last = NoCall
    /\ frames = <<>>
    /\ out = <<>>
    /\ wstate = "idle"
    /\ reread = <<>>
    /\ probe = NoProbe
    /\ iter = NoIterator
    /\ cframes \in {<<[val |-> c, box |-> "live", atoms |-> "live"]>> : c \in ClientCFrames}
    /\ ret = NoReturn
    /\ disk = NoFile

\* the conversion returned `r`: the frame it built is kept
ConvertedBack(r) ==
    /\ frames' = IF r.tag = "Some" THEN <<r.val>> ELSE <<>>
    /\ ret' = [op |-> "convert_c_frame_to_con_frame",
               status |-> IF r.tag = "Panic" THEN "aborted" ELSE "returned",
               val |-> 0]

\* convert_c_frame_to_con_frame applied to the client's record
ConvertBack ==
    /\ ret.op = "none"
    /\ ConvertedBack(convert_c_frame_to_con_frame(PtrOf(1)))
    /\ UNCHANGED <<input, lines, pos, ncalls, last, out, wstate, reread, probe,
                   iter, cframes, disk>>

NextConvert == ConvertBack

SpecConvert == InitConvert /\ [][NextConvert]_vars

\* how many records of atom_data were built from the atom
TimesEmitted(atom_data, atom) ==
    Cardinality({j \in 1..Len(atom_data) : atom_data[j] = AtomDatumOf(atom, SymbolOf(atom))})

\* C27: convert_c_frame_to_con_frame emits a permutation of its input: the
\* atom_data built has exactly num_atoms records and each atom of the array
\* appears in it exactly once, also when two atomic numbers of the array map
\* to one symbol and when natms_per_type does not sum to num_atoms.
C27_Permutation ==
    ret.op = "convert_c_frame_to_con_frame" =>
        /\ ret.status = "returned"
        /\ Len(frames) = 1
        /\ Len(frames[1].atom_data) = cframes[1].val.num_atoms
        /\ \A k \in 1..cframes[1].val.num_atoms :
              TimesEmitted(frames[1].atom_data, cframes[1].val.atoms[k]) = 1

----------------------------------------------------------------------------
(* read_single_frame against the iterator's first frame                     *)

\* what con_frame_iterator_next returns first on a fresh iterator over the file
FirstNext == con_frame_iterator_next("it", lines, 0).ptr

\* C28: read_single_frame(path) is the first result of
\* con_frame_iterator_next on a fresh iterator over the same file: null in
\* the same cases, otherwise a CFrame equal in every field (atoms with the
\* mass of their type, cell, angles, the four header text buffers,
\* natm_types, natms_per_type, masses_per_type).
C28_ReadSingleIsFirstNext ==
    ret.op = "read_single_frame" =>
        /\ read_single_frame("in", lines) = FirstNext
        /\ ret.val > 0 => Boxed(cframes[ret.val].val) = FirstNext

----------------------------------------------------------------------------
(* A null from con_frame_iterator_next that is not the end                  *)

\* the file holds a well-formed frame of more than MAX_ATOM_TYPES types and
\* then FrameX
OverflowInput == input = [tpl |-> OverflowThenFrame, dmg |-> NoDamage, checks |-> FALSE]

\* where the second frame of that file starts
AfterOverflow == Len(BoundaryTemplates[OverflowThenFrame[1]].text)

\* the CFrame of the second frame, decoded on its own
FollowingCFrame ==
    convert_con_frame_to_c_frame(
        parse_single_frame(BoundaryTemplates[OverflowThenFrame[2]].text, 0).res.val)

\* the function at the two frame starts of the file: null with the cursor
\* after the whole overflowing frame, then the following frame
DropsOverflowingFrame ==
    (OverflowInput /\ ret.op = "con_frame_iterator_next") =>
        /\ con_frame_iterator_next("it", lines, 0).ptr = Null
        /\ con_frame_iterator_next("it", lines, 0).res.tag = "Ok"
        /\ con_frame_iterator_next("it", lines, 0).pos = AfterOverflow
        /\ FollowingCFrame.tag = "Ptr"
        /\ con_frame_iterator_next("it", lines, AfterOverflow).ptr = FollowingCFrame
        /\ con_frame_iterator_next("it", lines, AfterOverflow).pos = Len(lines)

\* the call on the live handle at the overflowing frame returns null, moves
\* the cursor past the frame and leaves the handle as it was; the call on the
\* handle after that returns the following frame
NullThenFrame ==
    /\ (OverflowInput /\ pos = 0 /\ ret'.op = "con_frame_iterator_next" /\ pos' # pos) =>
          /\ ret'.status = "returned"
          /\ ret'.val = 0
          /\ pos' = AfterOverflow
          /\ iter' = iter
          /\ iter.handle = "live"
    /\ (/\ OverflowInput
        /\ ret.op = "con_frame_iterator_next"
        /\ ret.val = 0
        /\ pos = AfterOverflow
        /\ ret'.op = "con_frame_iterator_next"
        /\ pos' # pos) =>
          /\ ret'.val > 0
          /\ Boxed(cframes'[ret'.val].val) = FollowingCFrame
          /\ cframes'[ret'.val].box = "live"
          /\ pos' = Len(lines)

\* C29: a null from con_frame_iterator_next is not terminal.  When it comes
\* from a well-formed frame of more than 64 types the cursor has moved past
\* that whole frame, and the next call on the same handle returns the frame
\* that follows in the file: the overflowing frame is dropped, the stream
\* stays aligned and the handle stays usable until it is released.
C29_NullNotTerminal == [](DropsOverflowingFrame) /\ [][NullThenFrame]_vars

\* the second call on the handle returned the frame after the overflowing one
C29_Witness ==
    /\ OverflowInput
    /\ ret.op = "con_frame_iterator_next"
    /\ ret.val = 1
    /\ Boxed(cframes[1].val) = FollowingCFrame
    /\ cframes[1].val.natm_types = U(1)
    /\ pos = Len(lines)
    /\ iter.handle = "live"

====
